---- MODULE Spec2Model ----
(***************************************************************************)
(* Laravel Blade Vars Bridge: the extension orchestrator (activation,      *)
(* background bridge initialisation, rescans of the controller files into  *)
(* the process-wide cache, hover queries) and the controller extraction    *)
(* engines it drives.                                                      *)
(*                                                                         *)
(* Texts are modelled at statement level: a controller file is a sequence  *)
(* of statements (assignments and view() calls); a regular expression's    *)
(* lastIndex is the number of the statement its last match ended in.       *)
(***************************************************************************)
EXTENDS Integers, Sequences, FiniteSets, TLC

(***************************************************************************)
(* Bounds of the model.                                                    *)
(***************************************************************************)
\* scans started in one run, the activation-time scan included
MaxScans == 3

\* the longest member chain of a query: $var->a->b
MaxChain == 2

\* the most statements of a controller text given to a function applied on its own
MaxStmts == 2

\* the most characters of a template name given to a function applied on its own
MaxName == 5

\* the most entries of the variables map of a render call given to an engine
\* applied on its own
MaxArgs == 2

\* the most characters of the line a word range is asked on
MaxLine == 4

\* the most render calls of a text given to the syntax-tree engine
MaxCalls == 2

\* the most entries of each section ($fillable, $casts, $dates, @property,
\* relation methods) of a class file given to a function applied on its own
MaxEntries == 1

(***************************************************************************)
(* Workspace contents.                                                     *)
(***************************************************************************)
WorkspaceRoot == "/ws"

Assign(v, shape, cls) ==
  [k |-> "assign", var |-> v, shape |-> shape, cls |-> cls,
   syntax |-> "", name |-> <<>>, args |-> <<>>]

ViewCall(syntax, name, args) ==
  [k |-> "view", var |-> "", shape |-> "", cls |-> "",
   syntax |-> syntax, name |-> name, args |-> args]

\* 'key' => $val   and   'key' => 5
VarEntry(key, val) == [key |-> key, isVar |-> TRUE, val |-> val]
LitEntry(key, val) == [key |-> key, isVar |-> FALSE, val |-> val]

\* $posts = Post::where('x', 1)->get();
\* return view('home', compact('user'));
\* return view('posts.index', ['posts' => $posts, 'limit' => 5]);
\* $user = User::find(1);                    (in another method of the class)
TextHome ==
  << Assign("posts", "WhereGet", "Post"),
     ViewCall("compact", <<"home">>, << "user" >>),
     ViewCall("array", <<"posts", "index">>,
              << VarEntry("posts", "posts"), LitEntry("limit", "5") >>),
     Assign("user", "Find", "User") >>

\* return view('', ['x' => $x]);
\* $n = 1;
\* return view('tags', compact(['a', 'b']));
TextTags ==
  << ViewCall("array", << >>, << VarEntry("x", "x") >>),
     Assign("n", "Number", ""),
     ViewCall("compact", <<"tags">>, << "[a", "b]" >>) >>

\* return view('dash', ['stats' => $stats]);
TextDash ==
  << ViewCall("array", <<"dash">>, << VarEntry("stats", "stats") >>) >>

Texts == << TextHome, TextTags, TextDash >>

TextIds == 1 .. Len(Texts)

Absent == 0

\* the controller files of the workspace, in the order a listing returns them
FileIds == << "HomeController.php", "TagController.php", "AdminController.php" >>

Files == { FileIds[i] : i \in 1 .. Len(FileIds) }

\* the settings' controllerPaths values: the default pattern alone, or with a second one
PathsDefault == << "app/Http/Controllers/**/*.php" >>
PathsBoth == << "app/Http/Controllers/**/*.php", "app/Admin/**/*.php" >>

PatternFiles(pattern) ==
  IF pattern = "app/Http/Controllers/**/*.php"
  THEN << "HomeController.php", "TagController.php" >>
  ELSE << "AdminController.php" >>

\* the workspace when the extension is activated
InitialFiles ==
  [f \in Files |-> IF f = "HomeController.php" THEN 1
                   ELSE IF f = "TagController.php" THEN 2 ELSE 3]

\* the changes of controller files that happen: a deletion and a creation
FileChanges ==
  { << "TagController.php", Absent >>, << "TagController.php", 2 >> }

\* the pieces of a template's text: a @foreach / @forelse directive, an
\* @endforeach / @endforelse directive, or other text
ForeachToken(coll, item) == [t |-> "foreach", coll |-> coll, item |-> item]
EndToken == [t |-> "end", coll |-> "", item |-> ""]
TextToken == [t |-> "text", coll |-> "", item |-> ""]

PostsIndexUri == "file:///ws/resources/views/posts/index.blade.php"

HomeUri == "file:///ws/resources/views/home.blade.php"

\* resources/views/posts/index.blade.php:
\*   {{ $ }}
\*   @foreach($posts as $post) {{ $ }}
\*     @foreach($tags as $tag) {{ $ }} @endforeach
\*     {{ $ }}
\*   @endforeach
\*   {{ $ }}
\*   @foreach($posts as $post) @endforeach
\*   {{ $ }}
BladeText(uri) ==
  IF uri = PostsIndexUri
  THEN << TextToken,
          ForeachToken("posts", "post"), TextToken,
            ForeachToken("tags", "tag"), TextToken, EndToken,
            TextToken,
          EndToken,
          TextToken,
          ForeachToken("posts", "post"), EndToken,
          TextToken >>
  ELSE IF uri = HomeUri
  THEN << TextToken >>
  ELSE << >>

\* resources/views: the @foreach / @forelse directives of each template
BladeDirectives(uri) == SelectSeq(BladeText(uri), LAMBDA tok : tok.t = "foreach")

\* resources/views/home.blade.php:   {{ $user-> }}
BladeExists(uri) == uri \in { PostsIndexUri, HomeUri }

\* app/Enums: the classes that declare `enum X`, and those with two or more constants
EnumClasses == { "Status" }
TraditionalEnumClasses == { "Level" }

\* app/Enums/Status.php:  enum Status { case ACTIVE = 'active'; }
\* app/Enums/Level.php:   class Level { const LOW = 'low'; const HIGH = 'high'; }
EnumFileCases(enumName) ==
  IF enumName = "Status" THEN << "ACTIVE" >>
  ELSE IF enumName = "Level" THEN << "LOW", "HIGH" >>
  ELSE << >>

\* the class files under app/Models and app/
ModelClasses == { "Post" }

\* app/Models/Post.php:
\*   /** @property int $views */
\*   class Post extends Model {
\*     protected $fillable = ['title', 'body'];
\*     protected $casts = ['id' => 'string', 'published_at' => 'datetime'];
\*     protected $dates = ['created_at'];
\*     public function user() { return $this->belongsTo(User::class); }
\*     public function comments() { return $this->hasMany(Comment::class); }
\*   }
\* app/Models/User.php, app/User.php and the files of other classes do not exist
ModelFile(modelName) ==
  IF modelName = "Post"
  THEN [fillable |-> << "title", "body" >>,
        casts |-> << << "id", "string" >>, << "published_at", "datetime" >> >>,
        dates |-> << "created_at" >>,
        phpDoc |-> << << "int", "views" >> >>,
        relations |-> << << "user", "single" >>, << "comments", "collection" >> >>]
  ELSE [fillable |-> << >>, casts |-> << >>, dates |-> << >>, phpDoc |-> << >>,
        relations |-> << >>]

(***************************************************************************)
(* Helpers on sequences.                                                   *)
(***************************************************************************)
RECURSIVE ConcatAll(_)
ConcatAll(ss) == IF ss = << >> THEN << >> ELSE Head(ss) \o ConcatAll(Tail(ss))

RECURSIVE Join(_, _)
Join(segs, sep) ==
  IF segs = << >> THEN ""
  ELSE IF Len(segs) = 1 THEN segs[1]
  ELSE segs[1] \o sep \o Join(Tail(segs), sep)

Min(S) == CHOOSE x \in S : \A y \in S : x <= y

Contains(seq, x) == \E i \in 1 .. Len(seq) : seq[i] = x

(***************************************************************************)
(* Types and variable records.                                             *)
(***************************************************************************)
\* a PHPType: `base` alone, or `base<of>`
PlainType(base) == [base |-> base, of |-> ""]
CollectionOf(cls) == [base |-> "Collection", of |-> cls]
Mixed == PlainType("mixed")
\* inferEnumType's null
NoType == PlainType("")

BladeVarInfo(name, source, jumpTargetUri, definedInPath, type) ==
  [name |-> name, source |-> source, jumpTargetUri |-> jumpTargetUri,
   definedInPath |-> definedInPath, type |-> type]

\* the text of a dot-notation template name given as its segments
NameText(name) == Join(name, ".")

\* undefined is modelled as "": both are falsy, and every caller tests truthiness
convertToBladeFilePath(dotNotationPath) ==
  IF NameText(dotNotationPath) = "" THEN ""
  ELSE LET relativePath == Join(dotNotationPath, "/")
           absoluteViewPath == "file://" \o WorkspaceRoot \o "/resources/views"
       IN  absoluteViewPath \o "/" \o relativePath \o ".blade.php"

(***************************************************************************)
(* Type inference from the assignments of the controller text.             *)
(***************************************************************************)
isValidEnumClass(className) == className \in EnumClasses

isTraditionalEnumClass(className) == className \in TraditionalEnumClasses

\* the statements of `code` that assign (any variable) a right-hand side of a shape in S
AssignsOf(code, S) ==
  { i \in 1 .. Len(code) : code[i].k = "assign" /\ code[i].shape \in S }

\* the statements of `code` that assign $varName a right-hand side of a shape in S
AssignsTo(code, varName, S) ==
  { i \in AssignsOf(code, S) : code[i].var = varName }

\* `[\s\S]*?->get\(\)` : some text at or after statement i holds `->get()`
GetFollows(code, i) ==
  \E j \in i .. Len(code) :
     code[j].k = "assign" /\ code[j].shape \in { "QueryGet", "WhereGet" }

\* the names `new RegExp` rejects when they are spliced into a pattern
InvalidRegexNames == { "[a" }

\* ENUM_PATTERNS.*.source.replace(/\\(\\w\\+\\)/, varName) replaces nothing (the
\* source holds no doubled backslash), so the patterns match an assignment to
\* any variable; only the first match in the text is examined.
inferEnumType(code, varName) ==
  LET cases == AssignsOf(code, { "EnumCase" })
      calls == AssignsOf(code, { "EnumFrom" })
  IN  IF cases # {} /\ isValidEnumClass(code[Min(cases)].cls)
        THEN PlainType(code[Min(cases)].cls)
      ELSE IF cases # {} /\ isTraditionalEnumClass(code[Min(cases)].cls)
        THEN PlainType(code[Min(cases)].cls)
      ELSE IF calls # {} /\ isValidEnumClass(code[Min(calls)].cls)
        THEN PlainType(code[Min(calls)].cls)
      ELSE NoType

\* inferVariableType raises a SyntaxError when it builds its patterns from a
\* name that is no valid pattern text (after the enum check, which builds none)
inferVariableTypeThrows(code, varName) ==
  /\ inferEnumType(code, varName) = NoType
  /\ varName \in InvalidRegexNames

inferVariableType(code, varName) ==
  LET enumType == inferEnumType(code, varName)
      eloquent == { i \in AssignsTo(code, varName, { "QueryGet", "QueryFirst" }) :
                      GetFollows(code, i) }
      single == AssignsTo(code, varName, { "Find" })
      coll1 == { i \in AssignsTo(code, varName, { "All", "WhereGet", "WhereFirst" }) :
                   GetFollows(code, i) }
      coll2 == { i \in AssignsTo(code, varName, { "WhereGet", "WhereFirst" }) :
                   GetFollows(code, i) }
      news == AssignsTo(code, varName, { "New" })
      Has(shape) == AssignsTo(code, varName, { shape }) # {}
  IN  IF enumType # NoType THEN enumType
      ELSE IF eloquent # {} THEN CollectionOf(code[Min(eloquent)].cls)
      ELSE IF single # {} THEN PlainType(code[Min(single)].cls)
      ELSE IF coll1 # {} THEN CollectionOf(code[Min(coll1)].cls)
      ELSE IF coll2 # {} THEN CollectionOf(code[Min(coll2)].cls)
      ELSE IF news # {} THEN PlainType(code[Min(news)].cls)
      ELSE IF Has("Collect") THEN PlainType("Collection")
      ELSE IF Has("Carbon") THEN PlainType("Carbon")
      ELSE IF Has("Array") THEN PlainType("array")
      ELSE IF Has("String") THEN PlainType("string")
      ELSE IF Has("Number") THEN PlainType("int")
      ELSE IF Has("Bool") THEN PlainType("bool")
      ELSE IF Has("Request") THEN PlainType("Request")
      ELSE Mixed

\* the expressions of the modelled texts are a bare `$name` or a literal: they
\* hold neither `->` nor `(`, so the chain and call analyses add nothing
inferVariableTypeEnhanced(code, varName, fullExpression) ==
  inferVariableType(code, varName)

(***************************************************************************)
(* Collection-item materialization.                                        *)
(***************************************************************************)
RECURSIVE Dedup(_, _)
Dedup(seq, seen) ==
  IF seq = << >> THEN seen
  ELSE Dedup(Tail(seq), IF Contains(seen, Head(seq)) THEN seen ELSE Append(seen, Head(seq)))

\* collectionVar is given without its `$` (the code's collectionVar.slice(1))
extractForeachVariables(bladeFilePath, collectionVar) ==
  IF ~BladeExists(bladeFilePath) THEN << >>
  ELSE LET ds == SelectSeq(BladeDirectives(bladeFilePath),
                           LAMBDA d : d.coll = collectionVar)
       IN  Dedup([i \in 1 .. Len(ds) |-> "$" \o ds[i].item], << >>)

\* varName is given without its `$`
addCollectionItemTypes(type, varName, viewName, controllerPath) ==
  IF type.base = "Collection" /\ type.of # ""
  THEN LET bladeFilePath == convertToBladeFilePath(viewName)
       IN  IF bladeFilePath # ""
           THEN LET foreachVars == extractForeachVariables(bladeFilePath, varName)
                IN  [i \in 1 .. Len(foreachVars) |->
                       BladeVarInfo(foreachVars[i], "$" \o varName \o " (foreach item)",
                                    bladeFilePath, controllerPath, PlainType(type.of))]
           ELSE << >>
  ELSE << >>

(***************************************************************************)
(* The regex-heuristic engine.                                             *)
(***************************************************************************)
\* VIEW_CALL_PATTERNS: the quoted template name is `[^'"]+`, one character or more
MatchesArraySyntax(stmt) ==
  stmt.k = "view" /\ stmt.syntax = "array" /\ NameText(stmt.name) # "" /\ stmt.args # << >>

MatchesCompactSyntax(stmt) ==
  stmt.k = "view" /\ stmt.syntax = "compact" /\ NameText(stmt.name) # "" /\ stmt.args # << >>

\* the second argument of a view() call: `[...]`, `compact(...)`, or `array(...)`,
\* which the enhanced pattern takes by its alternative `\w+\([^)]*\)`
EnhancedSyntaxes == { "array", "compact", "arrayFn" }

\* a variant whose quoted template name may be empty (`[^'"]*`)
MatchesEnhancedCallAnyName(stmt) ==
  stmt.k = "view" /\ stmt.syntax \in EnhancedSyntaxes

MatchesEnhancedCall(stmt) ==
  stmt.k = "view" /\ stmt.syntax \in EnhancedSyntaxes /\ NameText(stmt.name) # ""

\* VARIABLE_PATTERNS.arrayKeyValue: the entries whose value is a `$identifier`
\* a variant that records the key as the source of an entry
ArrayKeyValueRecordsSourceKey(code, controllerPath, stmt) ==
  LET es == SelectSeq(stmt.args, LAMBDA e : e.isVar)
      One(e) ==
        LET inferredType == inferVariableType(code, e.val)
        IN  << BladeVarInfo("$" \o e.key, "$" \o e.key, convertToBladeFilePath(stmt.name),
                            controllerPath, inferredType) >>
            \o addCollectionItemTypes(inferredType, e.key, stmt.name, controllerPath)
  IN  ConcatAll([i \in 1 .. Len(es) |-> One(es[i])])

ArrayKeyValueRecords(code, controllerPath, stmt) ==
  LET es == SelectSeq(stmt.args, LAMBDA e : e.isVar)
      One(e) ==
        LET inferredType == inferVariableType(code, e.val)
        IN  << BladeVarInfo("$" \o e.key, "$" \o e.val, convertToBladeFilePath(stmt.name),
                            controllerPath, inferredType) >>
            \o addCollectionItemTypes(inferredType, e.key, stmt.name, controllerPath)
  IN  ConcatAll([i \in 1 .. Len(es) |-> One(es[i])])

\* the arraySyntax loop: nothing in it raises, so each run starts and ends at lastIndex 0
ArraySyntaxRecords(code, controllerPath) ==
  ConcatAll([i \in 1 .. Len(code) |->
               IF MatchesArraySyntax(code[i])
               THEN ArrayKeyValueRecords(code, controllerPath, code[i])
               ELSE << >>])

CompactNames(stmt) == SelectSeq(stmt.args, LAMBDA n : n # "")

CompactRecords(code, controllerPath, stmt) ==
  LET ns == CompactNames(stmt)
      One(varName) ==
        LET inferredType == inferVariableType(code, varName)
        IN  << BladeVarInfo("$" \o varName, "$" \o varName, convertToBladeFilePath(stmt.name),
                            controllerPath, inferredType) >>
            \o addCollectionItemTypes(inferredType, varName, stmt.name, controllerPath)
  IN  ConcatAll([i \in 1 .. Len(ns) |-> One(ns[i])])

\* the compactSyntax loop over the shared global pattern, from its current lastIndex:
\* exec finds the next match after lastIndex, or finds none and resets lastIndex to 0;
\* an error raised in the loop body leaves lastIndex at the end of the current match
RECURSIVE CompactSyntaxLoop(_, _, _, _)
CompactSyntaxLoop(code, controllerPath, lastIndex, acc) ==
  LET next == { i \in (lastIndex + 1) .. Len(code) : MatchesCompactSyntax(code[i]) }
  IN  IF next = {}
      THEN [thrown |-> FALSE, recs |-> acc, lastIndex |-> 0]
      ELSE LET i == Min(next)
               ns == CompactNames(code[i])
           IN  IF \E n \in 1 .. Len(ns) : inferVariableTypeThrows(code, ns[n])
               THEN [thrown |-> TRUE, recs |-> << >>, lastIndex |-> i]
               ELSE CompactSyntaxLoop(code, controllerPath, i,
                                      acc \o CompactRecords(code, controllerPath, code[i]))

(***************************************************************************)
(* The bridge-assisted engine.                                             *)
(***************************************************************************)
\* entries and names are processed until one raises; the records pushed before stay
RECURSIVE EnhancedEntries(_, _, _, _)
EnhancedEntries(code, controllerPath, stmt, es) ==
  IF es = << >> THEN << >>
  ELSE LET e == Head(es)
           inferName == IF e.isVar THEN e.val ELSE e.key
           sourceVar == IF e.isVar THEN "$" \o e.val ELSE e.val
       IN  IF inferVariableTypeThrows(code, inferName) THEN << >>
           ELSE LET inferredType == inferVariableTypeEnhanced(code, inferName, e.val)
                IN  << BladeVarInfo("$" \o e.key, sourceVar, convertToBladeFilePath(stmt.name),
                                    controllerPath, inferredType) >>
                    \o addCollectionItemTypes(inferredType, e.key, stmt.name, controllerPath)
                    \o EnhancedEntries(code, controllerPath, stmt, Tail(es))

parseArraySyntaxVariables(code, controllerPath, stmt) ==
  EnhancedEntries(code, controllerPath, stmt, stmt.args)

RECURSIVE EnhancedNames(_, _, _, _)
EnhancedNames(code, controllerPath, stmt, ns) ==
  IF ns = << >> THEN << >>
  ELSE LET varName == Head(ns)
       IN  IF inferVariableTypeThrows(code, varName) THEN << >>
           ELSE LET inferredType == inferVariableTypeEnhanced(code, varName, "$" \o varName)
                IN  << BladeVarInfo("$" \o varName, "$" \o varName,
                                    convertToBladeFilePath(stmt.name), controllerPath,
                                    inferredType) >>
                    \o addCollectionItemTypes(inferredType, varName, stmt.name, controllerPath)
                    \o EnhancedNames(code, controllerPath, stmt, Tail(ns))

parseCompactSyntaxVariables(code, controllerPath, stmt) ==
  EnhancedNames(code, controllerPath, stmt, CompactNames(stmt))

\* the text of the second argument array('key' => $val, 'key' => 5)
ExpressionText(stmt) ==
  "array("
    \o Join([i \in 1 .. Len(stmt.args) |->
               "'" \o stmt.args[i].key \o "' => "
                 \o (IF stmt.args[i].isVar THEN "$" ELSE "") \o stmt.args[i].val], ", ")
    \o ")"

\* lines 1229-1255: one record, named after the first `$variable` of the expression
parseVariableOrMethodCall(code, controllerPath, stmt) ==
  LET vars == SelectSeq(stmt.args, LAMBDA e : e.isVar)
  IN  IF vars = << >> \/ inferVariableTypeThrows(code, vars[1].val) THEN << >>
      ELSE LET varMatch == vars[1].val
               inferredType == inferVariableTypeEnhanced(code, varMatch, ExpressionText(stmt))
           IN  << BladeVarInfo("$" \o varMatch, ExpressionText(stmt),
                               convertToBladeFilePath(stmt.name), controllerPath,
                               inferredType) >>
               \o addCollectionItemTypes(inferredType, varMatch, stmt.name, controllerPath)

\* an error of one call is caught inside the loop, which always runs to its end
parseViewCallsUsingEnhancedRegex(code, controllerPath) ==
  ConcatAll([i \in 1 .. Len(code) |->
               IF ~MatchesEnhancedCall(code[i]) THEN << >>
               ELSE IF code[i].syntax = "array"
                 THEN parseArraySyntaxVariables(code, controllerPath, code[i])
               ELSE IF code[i].syntax = "compact"
                 THEN parseCompactSyntaxVariables(code, controllerPath, code[i])
               ELSE parseVariableOrMethodCall(code, controllerPath, code[i])])

\* what an interpreter instance answers to run(script)
\*   "ast"       the AST script prints JSON without an error field
\*   "asterror"  the AST script prints JSON with an error field
\*   "tokens"    the AST script prints no JSON, the token script prints JSON
\*   "tokenfail" the AST script prints no JSON, the token script prints none either
\*   "notext"    run returns no text
\*   "throws"    run raises
RunBehaviours == { "ast", "asterror", "tokens", "tokenfail", "notext", "throws" }

\* a variant that goes on to the enhanced regex whatever the run call answered
parseWithPhpWasmUnchecked(code, controllerPath, phpWasm) ==
  [thrown |-> FALSE, recs |-> parseViewCallsUsingEnhancedRegex(code, controllerPath)]

parseWithPhpWasm(code, controllerPath, phpWasm) ==
  IF phpWasm \in { "ast", "tokens" }
  THEN [thrown |-> FALSE, recs |-> parseViewCallsUsingEnhancedRegex(code, controllerPath)]
  ELSE [thrown |-> TRUE, recs |-> << >>]

(***************************************************************************)
(* parseViewVariablesFromController.                                       *)
(***************************************************************************)
\* phpWasm is "null", "undefined" (argument omitted) or an instance's behaviour;
\* code is a controller text, or Absent when the file cannot be read
Truthy(phpWasm) == phpWasm \notin { "null", "undefined" }

\* the regex-heuristic engine on a text that was read: both loops, then the filter
\* of line 165; an error raised in a loop ends in the catch of lines 166-169
RegexEngine(text, controllerPath, lastIndex) ==
  LET compact == CompactSyntaxLoop(text, controllerPath, lastIndex, << >>)
      bladeVarInfo == ArraySyntaxRecords(text, controllerPath) \o compact.recs
  IN  IF compact.thrown
      THEN [recs |-> << >>, lastIndex |-> compact.lastIndex]
      ELSE [recs |-> SelectSeq(bladeVarInfo, LAMBDA info : info.jumpTargetUri # ""),
            lastIndex |-> compact.lastIndex]

\* lines 32-170 on the text that was read
parseViewVariablesFromText(text, controllerPath, phpWasm, phpWasmReady, lastIndex) ==
  LET bridge == IF phpWasmReady /\ Truthy(phpWasm)
                THEN parseWithPhpWasm(text, controllerPath, phpWasm)
                ELSE [thrown |-> TRUE, recs |-> << >>]
  IN  IF ~bridge.thrown /\ Len(bridge.recs) > 0
      THEN [recs |-> bridge.recs, lastIndex |-> lastIndex]
      ELSE RegexEngine(text, controllerPath, lastIndex)

parseViewVariablesFromController(code, controllerPath, phpWasm, phpWasmReady, lastIndex) ==
  IF code = Absent
  THEN [recs |-> << >>, lastIndex |-> lastIndex]
  ELSE parseViewVariablesFromText(Texts[code], controllerPath, phpWasm, phpWasmReady,
                                  lastIndex)

(***************************************************************************)
(* The state of the extension host process and of its environment.         *)
(***************************************************************************)
VARIABLES
  phpWasm,            \* extension.ts: "null" or the behaviour of the interpreter instance
  phpWasmReady,       \* extension.ts: the readiness flag
  allBladeVarInfos,   \* extension.ts: the cache, a sequence of variable records
  compactLastIndex,   \* VIEW_CALL_PATTERNS.compactSyntax.lastIndex
  actPc,              \* activate: "inactive", "scanning" (awaiting the first scan), "returned"
  registered,         \* the resources registered with the editor and not disposed
  subscriptions,      \* context.subscriptions
  errorMessages,      \* calls of showErrorMessage
  errorLogs,          \* calls of console.error in activate's catch
  failedStep,         \* the registration step that raised in activate, 0 when none did
  deactivated,        \* the editor has deactivated the extension
  initPromise,        \* initializePhpWasmSafely's inner promise: "none", "pending", "resolved", "rejected"
  initOuter,          \* initializePhpWasmSafely itself: "none", "awaiting", "ok", "failed"
  scans,              \* the calls of refreshVariableInformation, by start order
  nScans,             \* how many were started
  last,               \* the call that ended last: how it ended and what it saw
  fs,                 \* the controller files: file -> text number, or Absent
  controllerPaths,    \* the controllerPaths setting
  pendingEvents,      \* file-watcher events not yet delivered
  quiet,              \* files, settings and bridge flags are as when the last call ended
  hoverResult,        \* the answer of the last hover query
  enable,             \* the `enable` setting
  completionResult,   \* the answer of the last completion or chain query
  probe               \* a function of the engines applied on its own: input and result

vars ==
  << phpWasm, phpWasmReady, allBladeVarInfos, compactLastIndex, actPc, registered,
     subscriptions, errorMessages, errorLogs, failedStep, deactivated, initPromise,
     initOuter, scans, nScans, last, fs, controllerPaths, pendingEvents,
     quiet, hoverResult, enable, completionResult, probe >>

bridgeVars == << phpWasm, phpWasmReady, initPromise, initOuter >>
activationVars ==
  << actPc, registered, subscriptions, errorMessages, errorLogs, failedStep, deactivated >>
envVars == << fs, controllerPaths, pendingEvents, enable >>
queryVars == << completionResult, probe >>

\* what a function applied on its own leaves alone: the whole module state
programVars ==
  << phpWasm, phpWasmReady, allBladeVarInfos, compactLastIndex, actPc, registered,
     subscriptions, errorMessages, errorLogs, failedStep, deactivated, initPromise,
     initOuter, scans, nScans, last, fs, controllerPaths, pendingEvents, quiet,
     hoverResult, enable, completionResult >>

ScanIds == 1 .. MaxScans

NoHover == [asked |-> FALSE, found |-> FALSE, name |-> "", type |-> NoType]

\* no completion or chain query was answered yet
NoCompletion == [kind |-> "none"]

\* no function is applied on its own
NoProbe == [fn |-> "none"]

\* a call of refreshVariableInformation that was not started yet
IdleScan ==
  [pc |-> "idle", paths |-> << >>, p |-> 0, files |-> << >>, f |-> 0, pending |-> << >>,
   pre |-> << >>, produced |-> << >>, alone |-> FALSE, observed |-> FALSE, obs |-> << >>,
   steady |-> FALSE, repeat |-> FALSE, engines |-> {}]

\* no call has ended yet
NoLast == [id |-> 0, outcome |-> "none", scan |-> IdleScan]

\* a call that ended keeps nothing but how it ended
Settled(sc) == [IdleScan EXCEPT !.pc = sc.pc]

\* the call that ended last, after call s moved on to sc
LastAfter(s, sc) ==
  IF sc.pc \in { "done", "failed" }
  THEN [id |-> s, outcome |-> sc.pc,
        scan |-> [sc EXCEPT !.pc = "idle", !.paths = << >>, !.p = 0, !.files = << >>,
                            !.f = 0, !.pending = << >>]]
  ELSE last

SettledOrNot(sc) == IF sc.pc \in { "done", "failed" } THEN Settled(sc) ELSE sc

\* the resources activate registers, in its order
Resources ==
  << "hoverProvider", "completionProvider", "propertyCompletionProvider", "refreshCommand",
     "statusBarItem", "watcher", "configListener" >>

ResourceSet == { Resources[i] : i \in 1 .. Len(Resources) }

\* the module state at load, the input of an applied function left open
ProgramInit ==
  /\ phpWasm = "null"
  /\ phpWasmReady = FALSE
  /\ allBladeVarInfos = << >>
  /\ compactLastIndex = 0
  /\ actPc = "inactive"
  /\ registered = {}
  /\ subscriptions = {}
  /\ errorMessages = 0
  /\ errorLogs = 0
  /\ failedStep = 0
  /\ deactivated = FALSE
  /\ initPromise = "none"
  /\ initOuter = "none"
  /\ scans = [s \in ScanIds |-> IdleScan]
  /\ nScans = 0
  /\ last = NoLast
  /\ fs = InitialFiles
  /\ controllerPaths = PathsDefault
  /\ pendingEvents = 0
  /\ quiet = FALSE
  /\ hoverResult = NoHover
  /\ enable = TRUE
  /\ completionResult = NoCompletion

Init ==
  /\ ProgramInit
  /\ probe = NoProbe

(***************************************************************************)
(* Scheduling: a continuation of an await on a settled promise is a        *)
(* microtask, and every microtask runs before the next task (a query, an   *)
(* event, a timer, the completion of a file listing or of a module load).  *)
(***************************************************************************)
InFlight(s) == scans[s].pc \in { "listing", "parsing" }

\* a variant for a call that is not awaited: it counts as ended once it was started
StartedOrFinished(s) == scans[s].pc # "idle"

Finished(s) == scans[s].pc \in { "done", "failed" }

\* a variant in which the continuation of a file's extraction is a task like any other
MicrotaskPendingButScans ==
  \/ actPc = "scanning" /\ Finished(1)
  \/ initOuter = "awaiting" /\ initPromise \in { "resolved", "rejected" }

MicrotaskPending ==
  \/ \E s \in ScanIds : scans[s].pc = "parsing"
  \/ actPc = "scanning" /\ Finished(1)
  \/ initOuter = "awaiting" /\ initPromise \in { "resolved", "rejected" }

(***************************************************************************)
(* refreshVariableInformation.                                             *)
(***************************************************************************)
\* a variant that leaves the list as it is
KeptCache(cache) == cache

\* line 170
ClearedCache(cache) == << >>

\* line 185
AppendedCache(cache, bladeVarInfos) == cache \o bladeVarInfos

\* vscode.workspace.findFiles: the files of the pattern that exist now
listControllerFiles(controllersPath) ==
  SelectSeq(PatternFiles(controllersPath), LAMBDA file : fs[file] # Absent)

\* the environment changes: the scans in flight no longer run over one environment
Unsteady(ss) ==
  [t \in ScanIds |-> IF InFlight(t) THEN [ss[t] EXCEPT !.steady = FALSE] ELSE ss[t]]

\* the loops of lines 178-191 from pattern p, file f of `files`, up to the next await:
\* the call of parseViewVariablesFromController runs to its end before its await
Advance(sc, p, files, f) ==
  IF f <= Len(files)
  THEN LET r == parseViewVariablesFromController(fs[files[f]], files[f], phpWasm,
                                                phpWasmReady, compactLastIndex)
       IN  [scan |-> [sc EXCEPT !.pc = "parsing", !.p = p, !.files = files, !.f = f,
                                !.pending = r.recs,
                                !.engines = @ \cup { phpWasmReady /\ Truthy(phpWasm) }],
            lastIndex |-> r.lastIndex]
  ELSE IF p < Len(sc.paths)
  THEN [scan |-> [sc EXCEPT !.pc = "listing", !.p = p + 1, !.files = << >>, !.f = 0,
                            !.pending = << >>],
        lastIndex |-> compactLastIndex]
  ELSE [scan |-> [sc EXCEPT !.pc = "done"], lastIndex |-> compactLastIndex]

\* lines 167-179: read the setting, empty the cache, start listing the first pattern;
\* `paths` is the setting's value and `ss` the calls so far
StartScan(paths, ss) ==
  LET s == nScans + 1
      sc == [IdleScan EXCEPT !.paths = paths, !.pre = allBladeVarInfos,
                             !.alone = \A t \in ScanIds : ~InFlight(t),
                             !.steady = TRUE, !.pc = "listing", !.p = 1,
                             !.repeat = /\ last.outcome = "done"
                                        /\ last.scan.alone
                                        /\ last.scan.steady
                                        /\ quiet
                                        /\ \A t \in ScanIds : ~InFlight(t)]
  IN  /\ nScans < MaxScans
      /\ nScans' = s
      /\ allBladeVarInfos' = ClearedCache(allBladeVarInfos)
      /\ scans' = [t \in ScanIds |->
                     IF t = s THEN sc
                     ELSE IF InFlight(t) THEN [ss[t] EXCEPT !.alone = FALSE]
                     ELSE ss[t]]

\* line 179 resumes with the files found
ListDone(s) ==
  /\ scans[s].pc = "listing"
  /\ ~MicrotaskPending
  /\ \E a \in { Advance(scans[s], scans[s].p,
                           listControllerFiles(scans[s].paths[scans[s].p]), 1) } :
         /\ scans' = [scans EXCEPT ![s] = SettledOrNot(a.scan)]
         /\ compactLastIndex' = a.lastIndex
         /\ last' = LastAfter(s, a.scan)
         /\ quiet' = (a.scan.pc = "done" \/ quiet)
  /\ UNCHANGED << allBladeVarInfos, nScans, hoverResult >>
  /\ UNCHANGED bridgeVars
  /\ UNCHANGED activationVars
  /\ UNCHANGED envVars
  /\ UNCHANGED queryVars

\* line 179 raises (the listing is rejected): lines 194-197
ListFail(s) ==
  /\ scans[s].pc = "listing"
  /\ ~MicrotaskPending
  /\ scans' = [scans EXCEPT ![s] = Settled([scans[s] EXCEPT !.pc = "failed"])]
  /\ last' = LastAfter(s, [scans[s] EXCEPT !.pc = "failed"])
  /\ UNCHANGED << allBladeVarInfos, compactLastIndex, nScans, quiet, hoverResult >>
  /\ UNCHANGED bridgeVars
  /\ UNCHANGED activationVars
  /\ UNCHANGED envVars
  /\ UNCHANGED queryVars

\* lines 184-186 resume with the records of one file, then go on to the next await
ParseDone(s) ==
  /\ scans[s].pc = "parsing"
  /\ \E a \in { Advance([scans[s] EXCEPT !.produced = @ \o scans[s].pending],
                           scans[s].p, scans[s].files, scans[s].f + 1) } :
         /\ allBladeVarInfos' = AppendedCache(allBladeVarInfos, scans[s].pending)
         /\ scans' = [scans EXCEPT ![s] = SettledOrNot(a.scan)]
         /\ compactLastIndex' = a.lastIndex
         /\ last' = LastAfter(s, a.scan)
         /\ quiet' = (a.scan.pc = "done" \/ quiet)
  /\ UNCHANGED << nScans, hoverResult >>
  /\ UNCHANGED bridgeVars
  /\ UNCHANGED activationVars
  /\ UNCHANGED envVars
  /\ UNCHANGED queryVars

(***************************************************************************)
(* initializePhpWasmSafely.                                                *)
(***************************************************************************)
\* lines 159-160, the failure path
\* a variant of the failure path that forgets the ready flag
FailedBridgeStillReady == [phpWasm |-> "null", phpWasmReady |-> TRUE]

FailedBridge == [phpWasm |-> "null", phpWasmReady |-> FALSE]

\* the bridge flags are set to (wasm, ready): a change of what the scans read
BridgeChanges(wasm, ready) == wasm # phpWasm \/ ready # phpWasmReady

AfterBridge(wasm, ready) ==
  IF BridgeChanges(wasm, ready) THEN Unsteady(scans) ELSE scans

\* lines 130-143: the module is loaded, the instance made and marked ready, and the
\* test run passes (the inner promise resolves) or raises (it is rejected)
ImportResolve(behaviour, testOk) ==
  /\ initPromise = "pending"
  /\ ~MicrotaskPending
  /\ phpWasm' = behaviour
  /\ phpWasmReady' = TRUE
  /\ initPromise' = IF testOk THEN "resolved" ELSE "rejected"
  /\ scans' = AfterBridge(behaviour, TRUE)
  /\ quiet' = (quiet /\ ~BridgeChanges(behaviour, TRUE))
  /\ UNCHANGED << allBladeVarInfos, compactLastIndex, initOuter, nScans, last,
                  hoverResult >>
  /\ UNCHANGED activationVars
  /\ UNCHANGED envVars
  /\ UNCHANGED queryVars

\* lines 130, 134, 144-146: the import or the constructor raises
ImportReject ==
  /\ initPromise = "pending"
  /\ ~MicrotaskPending
  /\ initPromise' = "rejected"
  /\ UNCHANGED << phpWasm, phpWasmReady, allBladeVarInfos, compactLastIndex, initOuter,
                  scans, nScans, last, quiet, hoverResult >>
  /\ UNCHANGED activationVars
  /\ UNCHANGED envVars
  /\ UNCHANGED queryVars

\* lines 153-161: the race is settled by the inner promise
OuterSettle ==
  /\ initOuter = "awaiting"
  /\ initPromise \in { "resolved", "rejected" }
  /\ IF initPromise = "resolved"
     THEN /\ initOuter' = "ok"
          /\ UNCHANGED << phpWasm, phpWasmReady, scans, quiet >>
     ELSE /\ initOuter' = "failed"
          /\ phpWasm' = FailedBridge.phpWasm
          /\ phpWasmReady' = FailedBridge.phpWasmReady
          /\ scans' = AfterBridge(FailedBridge.phpWasm, FailedBridge.phpWasmReady)
          /\ quiet' = (quiet /\ ~BridgeChanges(FailedBridge.phpWasm,
                                                FailedBridge.phpWasmReady))
  /\ UNCHANGED << allBladeVarInfos, compactLastIndex, initPromise, nScans, last,
                  hoverResult >>
  /\ UNCHANGED activationVars
  /\ UNCHANGED envVars
  /\ UNCHANGED queryVars

\* lines 149-161: the 15 second timer settles the race; the import stays pending
InitTimeout ==
  /\ initOuter = "awaiting"
  /\ initPromise = "pending"
  /\ ~MicrotaskPending
  /\ initOuter' = "failed"
  /\ phpWasm' = FailedBridge.phpWasm
  /\ phpWasmReady' = FailedBridge.phpWasmReady
  /\ scans' = AfterBridge(FailedBridge.phpWasm, FailedBridge.phpWasmReady)
  /\ quiet' = (quiet /\ ~BridgeChanges(FailedBridge.phpWasm, FailedBridge.phpWasmReady))
  /\ UNCHANGED << allBladeVarInfos, compactLastIndex, initPromise, nScans, last,
                  hoverResult >>
  /\ UNCHANGED activationVars
  /\ UNCHANGED envVars
  /\ UNCHANGED queryVars

(***************************************************************************)
(* activate and deactivate.                                                *)
(***************************************************************************)
\* lines 13-27: start the bridge initialisation in the background, start the first scan
Activate ==
  /\ actPc = "inactive"
  /\ actPc' = "scanning"
  /\ initPromise' = "pending"
  /\ initOuter' = "awaiting"
  /\ StartScan(controllerPaths, scans)
  /\ UNCHANGED << phpWasm, phpWasmReady, compactLastIndex, registered, subscriptions,
                  errorMessages, errorLogs, failedStep, deactivated, last, quiet,
                  hoverResult >>
  /\ UNCHANGED envVars
  /\ UNCHANGED queryVars

\* the resources registered when step failAt raises (0: no step raises)
RegisteredBefore(failAt) ==
  IF failAt = 0 THEN ResourceSet ELSE { Resources[i] : i \in 1 .. (failAt - 1) }

\* lines 99-107: reached only when no step raised
PushedSubscriptions(failAt) == IF failAt = 0 THEN ResourceSet ELSE {}

\* a variant that shows a notification per step that did not run
ErrorMessagesPerStep(failAt) ==
  IF failAt = 0 THEN 0 ELSE Len(Resources) - failAt + 1

\* lines 111-116
ErrorMessagesShown(failAt) == IF failAt = 0 THEN 0 ELSE 1

\* lines 29-116: after the first scan the registrations run in one task; a
\* registration call may raise, which ends the try block
ActivateContinue(failAt) ==
  /\ actPc = "scanning"
  /\ Finished(1)
  /\ actPc' = "returned"
  /\ failedStep' = failAt
  /\ registered' = registered \cup RegisteredBefore(failAt)
  /\ subscriptions' = subscriptions \cup PushedSubscriptions(failAt)
  /\ errorMessages' = errorMessages + ErrorMessagesShown(failAt)
  /\ errorLogs' = errorLogs + (IF failAt = 0 THEN 0 ELSE 1)
  /\ UNCHANGED << allBladeVarInfos, compactLastIndex, deactivated, scans, nScans,
                  last, quiet, hoverResult >>
  /\ UNCHANGED bridgeVars
  /\ UNCHANGED envVars
  /\ UNCHANGED queryVars

\* lines 669-671 do nothing; the editor disposes what context.subscriptions holds
Deactivate ==
  /\ actPc = "returned"
  /\ ~deactivated
  /\ ~MicrotaskPending
  /\ deactivated' = TRUE
  /\ registered' = registered \ subscriptions
  /\ UNCHANGED << allBladeVarInfos, compactLastIndex, actPc, subscriptions, errorMessages,
                  errorLogs, failedStep, scans, nScans, last, quiet, hoverResult >>
  /\ UNCHANGED bridgeVars
  /\ UNCHANGED envVars
  /\ UNCHANGED queryVars

(***************************************************************************)
(* The triggers of a rescan.                                               *)
(***************************************************************************)
\* lines 71-75, also bound to the status-bar item
RefreshCommand ==
  /\ "refreshCommand" \in registered
  /\ ~MicrotaskPending
  /\ StartScan(controllerPaths, scans)
  /\ UNCHANGED << compactLastIndex, last, quiet, hoverResult >>
  /\ UNCHANGED bridgeVars
  /\ UNCHANGED activationVars
  /\ UNCHANGED envVars
  /\ UNCHANGED queryVars

\* a controller file is created, changed or deleted in the workspace; with the
\* watcher registered, an event is queued (and a scan is left to serve it)
FileChange(file, text) ==
  /\ ~MicrotaskPending
  /\ fs[file] # text
  /\ fs' = [fs EXCEPT ![file] = text]
  /\ IF "watcher" \in registered
     THEN /\ nScans + pendingEvents < MaxScans
          /\ pendingEvents' = pendingEvents + 1
     ELSE pendingEvents' = pendingEvents
  /\ scans' = Unsteady(scans)
  /\ quiet' = FALSE
  /\ UNCHANGED << allBladeVarInfos, compactLastIndex, nScans, last,
                  controllerPaths, enable, hoverResult >>
  /\ UNCHANGED bridgeVars
  /\ UNCHANGED activationVars
  /\ UNCHANGED queryVars

\* lines 85-88
WatcherEvent ==
  /\ pendingEvents > 0
  /\ "watcher" \in registered
  /\ ~MicrotaskPending
  /\ pendingEvents' = pendingEvents - 1
  /\ StartScan(controllerPaths, scans)
  /\ UNCHANGED << compactLastIndex, last, fs, controllerPaths, enable, quiet,
                  hoverResult >>
  /\ UNCHANGED bridgeVars
  /\ UNCHANGED activationVars
  /\ UNCHANGED queryVars

\* lines 91-96: the controllerPaths setting is changed
\* the user changes laravel-blade-vars-bridge.enable in the settings: the listener
\* of lines 91-96 answers a change of any setting of the section with a scan;
\* refreshVariableInformation (167-170) reads controllerPaths and nothing else
EnableChange(value) ==
  /\ ~MicrotaskPending
  /\ value # enable
  /\ enable' = value
  /\ IF "configListener" \in registered
     THEN StartScan(controllerPaths, scans)
     ELSE UNCHANGED << scans, nScans, allBladeVarInfos >>
  /\ UNCHANGED << compactLastIndex, last, quiet, fs, controllerPaths, pendingEvents,
                  hoverResult >>
  /\ UNCHANGED bridgeVars
  /\ UNCHANGED activationVars
  /\ UNCHANGED queryVars

ConfigChange(paths) ==
  /\ ~MicrotaskPending
  /\ paths # controllerPaths
  /\ controllerPaths' = paths
  /\ quiet' = FALSE
  /\ IF "configListener" \in registered
     THEN StartScan(paths, Unsteady(scans))
     ELSE /\ scans' = Unsteady(scans)
          /\ UNCHANGED << nScans, allBladeVarInfos >>
  /\ UNCHANGED << compactLastIndex, last, fs, pendingEvents, enable, hoverResult >>
  /\ UNCHANGED bridgeVars
  /\ UNCHANGED activationVars
  /\ UNCHANGED queryVars

(***************************************************************************)
(* provideHover: the cache lookup of line 221.                             *)
(***************************************************************************)
HoverQueries ==
  { << "file:///ws/resources/views/posts/index.blade.php", "$posts" >>,
    << "file:///ws/resources/views/home.blade.php", "$user" >> }

provideHover(bladeUri, varName) ==
  LET hits == { i \in 1 .. Len(allBladeVarInfos) :
                  /\ allBladeVarInfos[i].jumpTargetUri = bladeUri
                  /\ allBladeVarInfos[i].name = varName }
  IN  IF hits = {}
      THEN [asked |-> TRUE, found |-> FALSE, name |-> "", type |-> NoType]
      ELSE [asked |-> TRUE, found |-> TRUE, name |-> allBladeVarInfos[Min(hits)].name,
            type |-> allBladeVarInfos[Min(hits)].type]

\* a hover query; each scan in flight notes the list the first query in its time saw
ProvideHover(q) ==
  /\ "hoverProvider" \in registered
  /\ ~MicrotaskPending
  /\ hoverResult' = provideHover(q[1], q[2])
  /\ scans' = [t \in ScanIds |->
                 IF InFlight(t) /\ ~scans[t].observed
                 THEN [scans[t] EXCEPT !.observed = TRUE, !.obs = allBladeVarInfos]
                 ELSE scans[t]]
  /\ UNCHANGED << allBladeVarInfos, compactLastIndex, nScans, last, quiet >>
  /\ UNCHANGED bridgeVars
  /\ UNCHANGED activationVars
  /\ UNCHANGED envVars
  /\ UNCHANGED queryVars

(***************************************************************************)
(* Member maps: parseEnumProperties, parseModelProperties and              *)
(* inferTypeProperties.  A map is a function from member names to types.    *)
(***************************************************************************)
EmptyMap == [n \in {} |-> Mixed]

\* { ...a, ...b } : the entries of b replace those of a
Spread(a, b) == b @@ a

\* properties[name] = type, for each pair of the sequence in turn
RECURSIVE AssignAll(_, _)
AssignAll(map, pairs) ==
  IF pairs = << >> THEN map
  ELSE AssignAll(Spread(map, Head(pairs)[1] :> Head(pairs)[2]), Tail(pairs))

\* lines 434-464, for the enum files of the workspace (which declare no method)
parseEnumProperties(enumName) ==
  LET cases == EnumFileCases(enumName)
  IN  IF cases = << >> THEN EmptyMap
      ELSE IF enumName \in EnumClasses
        THEN AssignAll(EmptyMap,
               [i \in 1 .. Len(cases) |-> << cases[i], PlainType(enumName) >>]
               \o << << "name", PlainType("string") >>,
                     << "value", Mixed >>,
                     << "cases", PlainType("array<" \o enumName \o ">") >>,
                     << "from", PlainType(enumName) >>,
                     << "tryFrom", PlainType(enumName \o "|null") >> >>)
      ELSE AssignAll(EmptyMap,
               [i \in 1 .. Len(cases) |-> << cases[i], PlainType("string") >>])

\* lines 693-726
CastType(castType) ==
  IF castType \in { "datetime", "date", "timestamp" } THEN PlainType("Carbon")
  ELSE IF castType \in { "integer", "int" } THEN PlainType("int")
  ELSE IF castType \in { "boolean", "bool" } THEN PlainType("bool")
  ELSE IF castType \in { "float", "double", "decimal" } THEN PlainType("float")
  ELSE IF castType \in { "array", "json" } THEN PlainType("array")
  ELSE IF castType \in EnumClasses \cup TraditionalEnumClasses THEN PlainType(castType)
  ELSE PlainType("string")

\* lines 748-759, for the @property types of the workspace's files
PhpDocType(phpDocType) ==
  IF phpDocType \in { "int", "integer" } THEN PlainType("int")
  ELSE IF phpDocType \in { "bool", "boolean" } THEN PlainType("bool")
  ELSE IF phpDocType \in { "float", "double" } THEN PlainType("float")
  ELSE IF phpDocType \in { "array" } THEN PlainType("array")
  ELSE IF phpDocType \in { "Carbon", "DateTime" } THEN PlainType("Carbon")
  ELSE PlainType("string")

\* lines 603-633: the pattern's match ends at the `(` of the relation call, so the
\* related class is never found in it and the fallback types are used
RelationType(returnType) ==
  IF returnType = "collection" THEN PlainType("Collection") ELSE PlainType("Model")

\* lines 668-768: the members found in the class file
FileProperties(file) ==
  LET fillable == [i \in 1 .. Len(file.fillable) |->
                     << file.fillable[i], PlainType("string") >>]
      casts == [i \in 1 .. Len(file.casts) |->
                  << file.casts[i][1], CastType(file.casts[i][2]) >>]
      dates == [i \in 1 .. Len(file.dates) |-> << file.dates[i], PlainType("Carbon") >>]
      phpDoc == [i \in 1 .. Len(file.phpDoc) |->
                   << file.phpDoc[i][2], PhpDocType(file.phpDoc[i][1]) >>]
      relations == [i \in 1 .. Len(file.relations) |->
                      << file.relations[i][1], RelationType(file.relations[i][2]) >>]
  IN  AssignAll(EmptyMap, fillable \o casts \o dates \o phpDoc \o relations)

\* lines 771-792 (and 964-985 with the type itself for the model name)
baseProperties(modelName) ==
  AssignAll(EmptyMap,
    << << "id", PlainType("int") >>,
       << "created_at", PlainType("Carbon") >>,
       << "updated_at", PlainType("Carbon") >>,
       << "save", PlainType("bool") >>,
       << "delete", PlainType("bool") >>,
       << "update", PlainType("bool") >>,
       << "fresh", modelName >>,
       << "refresh", modelName >>,
       << "toArray", PlainType("array") >>,
       << "toJson", PlainType("string") >>,
       << "getAttribute", Mixed >>,
       << "setAttribute", PlainType("void") >>,
       << "fill", modelName >>,
       << "isDirty", PlainType("bool") >>,
       << "isClean", PlainType("bool") >>,
       << "wasRecentlyCreated", PlainType("bool") >>,
       << "exists", PlainType("bool") >>,
       << "load", modelName >>,
       << "loadMissing", modelName >>,
       << "with", modelName >> >>)

\* line 794
MergedProperties(properties, base) == Spread(properties, base)

\* lines 668-794: the map made from the text of the class file
ModelPropertiesOf(modelName, file) ==
  MergedProperties(FileProperties(file), baseProperties(PlainType(modelName)))

parseModelProperties(modelName) ==
  IF modelName \notin ModelClasses THEN EmptyMap
  ELSE ModelPropertiesOf(modelName, ModelFile(modelName))

\* a value that is no string: a function inherited from Object.prototype
NativeFunction == [base |-> "function () { [native code] }", of |-> "native"]

IsString(type) == type # NativeFunction

\* the type names of the model that do not start with an uppercase letter
LowerLeadingNames ==
  { "", "mixed", "int", "bool", "float", "string", "array", "void", "array<Status>" }

\* /^[A-Z]/.test(type): a Collection<Model> type starts with `C`; a function is
\* converted to its source text, which starts with `f`
UpperLeading(type) == IsString(type) /\ type.base \notin LowerLeadingNames

\* lines 826-925: the members of the built-in types
BuiltinProperties(base) ==
  LET Typed(names, t) == [i \in 1 .. Len(names) |-> << names[i], PlainType(t) >>]
  IN  IF base = "Collection"
      THEN AssignAll(EmptyMap,
             Typed(<< "count" >>, "int") \o Typed(<< "first", "last" >>, "mixed")
             \o Typed(<< "isEmpty", "isNotEmpty" >>, "bool")
             \o Typed(<< "map", "filter", "where", "pluck", "each", "chunk", "sort",
                         "sortBy", "reverse", "unique" >>, "Collection")
             \o Typed(<< "toArray" >>, "array") \o Typed(<< "toJson" >>, "string"))
      ELSE IF base = "Carbon"
      THEN AssignAll(EmptyMap,
             Typed(<< "format", "diffForHumans", "toDateString", "toTimeString",
                      "toDateTimeString" >>, "string")
             \o Typed(<< "timestamp", "year", "month", "day", "hour", "minute",
                         "second" >>, "int")
             \o Typed(<< "addDays", "subDays", "addHours", "subHours" >>, "Carbon")
             \o Typed(<< "isToday", "isTomorrow", "isYesterday", "isPast",
                         "isFuture" >>, "bool"))
      ELSE IF base = "Request"
      THEN AssignAll(EmptyMap,
             Typed(<< "get", "post", "input", "query", "file", "json" >>, "mixed")
             \o Typed(<< "all", "only", "except" >>, "array")
             \o Typed(<< "has", "filled", "missing", "hasFile", "isMethod", "ajax" >>, "bool")
             \o Typed(<< "ip", "userAgent", "url", "fullUrl", "path", "method",
                         "header" >>, "string"))
      ELSE IF base = "string"
      THEN AssignAll(EmptyMap,
             Typed(<< "length" >>, "int")
             \o Typed(<< "upper", "lower", "trim", "substr", "replace" >>, "string")
             \o Typed(<< "contains", "startsWith", "endsWith" >>, "bool"))
      ELSE AssignAll(EmptyMap,
             Typed(<< "count", "length", "push", "unshift" >>, "int")
             \o Typed(<< "keys", "values", "merge", "slice", "reverse" >>, "array")
             \o Typed(<< "pop", "shift" >>, "mixed") \o Typed(<< "sort" >>, "bool"))

\* lines 929-959
CollectionOfProperties(modelName) ==
  LET Typed(names, t) == [i \in 1 .. Len(names) |-> << names[i], t >>]
  IN  AssignAll(EmptyMap,
        Typed(<< "count" >>, PlainType("int"))
        \o Typed(<< "first", "last", "random" >>, PlainType(modelName))
        \o Typed(<< "isEmpty", "isNotEmpty" >>, PlainType("bool"))
        \o Typed(<< "map", "pluck", "chunk", "groupBy", "keyBy" >>, PlainType("Collection"))
        \o Typed(<< "filter", "where", "each", "sort", "sortBy", "reverse", "unique",
                    "take", "skip", "slice", "shuffle", "forPage", "load",
                    "loadMissing" >>, CollectionOf(modelName))
        \o Typed(<< "toArray" >>, PlainType("array"))
        \o Typed(<< "toJson" >>, PlainType("string")))

\* lines 963-986
DefaultClassProperties(type) == baseProperties(type)

\* lines 805-989.  The result is the map, or the error raised: a value that is no
\* string reaches `type.startsWith` of line 929, which is no function
inferTypeProperties(type) ==
  LET enumProperties ==
        IF UpperLeading(type) /\ type.of = ""
             /\ (isValidEnumClass(type.base) \/ isTraditionalEnumClass(type.base))
        THEN parseEnumProperties(type.base) ELSE EmptyMap
      modelProperties ==
        IF UpperLeading(type) /\ type.of = ""
        THEN parseModelProperties(type.base) ELSE EmptyMap
  IN  IF ~IsString(type) THEN [thrown |-> TRUE, map |-> EmptyMap]
      ELSE IF DOMAIN enumProperties # {} THEN [thrown |-> FALSE, map |-> enumProperties]
      ELSE IF DOMAIN modelProperties # {} THEN [thrown |-> FALSE, map |-> modelProperties]
      ELSE IF type.of = "" /\ type.base \in { "Collection", "Carbon", "Request",
                                               "string", "array" }
        THEN [thrown |-> FALSE, map |-> BuiltinProperties(type.base)]
      ELSE IF type.base = "Collection" /\ type.of # ""
        THEN [thrown |-> FALSE, map |-> CollectionOfProperties(type.of)]
      ELSE IF UpperLeading(type)
        THEN [thrown |-> FALSE, map |-> DefaultClassProperties(type)]
      ELSE [thrown |-> FALSE, map |-> EmptyMap]

(***************************************************************************)
(* provideCompletionItems: variable completion after a `$`.                *)
(***************************************************************************)
\* the cursor positions of the completion queries: a template and a piece of its
\* text whose line holds a `$` before the cursor
CompletionQueries ==
  { << PostsIndexUri, pos >> : pos \in 1 .. Len(BladeText(PostsIndexUri)) }

\* lines 515-519: the first @endforeach / @endforelse after the directive, else
\* the end of the text
foreachEnd(text, foreachStart) ==
  LET ends == { j \in (foreachStart + 1) .. Len(text) : text[j].t = "end" }
  IN  IF ends = {} THEN Len(text) ELSE Min(ends)

\* a record of the cache for this template and name, or none (find's undefined)
FindInfo(cache, bladeUri, name) ==
  LET hits == { i \in 1 .. Len(cache) :
                  cache[i].jumpTargetUri = bladeUri /\ cache[i].name = name }
  IN  IF hits = {} THEN << >> ELSE << cache[Min(hits)] >>

getForeachVariablesAtPosition(cache, bladeUri, currentOffset) ==
  LET text == BladeText(bladeUri)
      One(i) ==
        IF text[i].t = "foreach" /\ currentOffset >= i
                                 /\ currentOffset <= foreachEnd(text, i)
        THEN LET collectionInfo == FindInfo(cache, bladeUri, "$" \o text[i].coll)
             IN  IF /\ collectionInfo # << >>
                    /\ collectionInfo[1].type.base = "Collection"
                    /\ collectionInfo[1].type.of # ""
                 THEN << BladeVarInfo("$" \o text[i].item,
                                      "$" \o text[i].coll \o " (foreach item)",
                                      bladeUri, collectionInfo[1].definedInPath,
                                      PlainType(collectionInfo[1].type.of)) >>
                 ELSE << >>
        ELSE << >>
  IN  ConcatAll([i \in 1 .. Len(text) |-> One(i)])

\* lines 396-408: the records of the cache for this template, then the foreach
\* variables at the position; one item per record
provideCompletionItems(cache, bladeUri, position) ==
  LET varInfos == SelectSeq(cache, LAMBDA v : v.jumpTargetUri = bladeUri)
      foreachVars == getForeachVariablesAtPosition(cache, bladeUri, position)
  IN  varInfos \o foreachVars

ProvideCompletion(q) ==
  /\ "completionProvider" \in registered
  /\ ~MicrotaskPending
  /\ completionResult' = [kind |-> "variables", uri |-> q[1], pos |-> q[2],
                          items |-> provideCompletionItems(allBladeVarInfos, q[1], q[2]),
                          foreachVars |-> getForeachVariablesAtPosition(
                                            allBladeVarInfos, q[1], q[2])]
  /\ UNCHANGED << allBladeVarInfos, compactLastIndex, scans, nScans, last, quiet,
                  hoverResult, probe >>
  /\ UNCHANGED bridgeVars
  /\ UNCHANGED activationVars
  /\ UNCHANGED envVars

(***************************************************************************)
(* Member chains: resolvePropertyChainType, member completion after `->`,   *)
(* and the hover over a segment of a chain.                                *)
(***************************************************************************)
\* the member names every object literal inherits from Object.prototype
ObjectPrototypeNames == { "constructor", "toString", "valueOf", "hasOwnProperty" }

\* typeProperties[propertyName]: the map's own entry, else the inherited member,
\* else undefined (no value)
Lookup(map, propertyName) ==
  IF propertyName \in DOMAIN map THEN << map[propertyName] >>
  ELSE IF propertyName \in ObjectPrototypeNames THEN << NativeFunction >>
  ELSE << >>

\* varInfo.type || 'mixed'
TypeOrMixed(type) == IF type = NoType THEN Mixed ELSE type

\* lines 553-580; the chain is given as its segments, a method's `()` removed.
\* The result is the type, or the error inferTypeProperties raised
RECURSIVE resolvePropertyChainType(_, _)
resolvePropertyChainType(currentType, chainParts) ==
  IF chainParts = << >> THEN [thrown |-> FALSE, type |-> currentType]
  ELSE LET typeProperties == inferTypeProperties(currentType)
           found == Lookup(typeProperties.map, Head(chainParts))
       IN  IF typeProperties.thrown THEN [thrown |-> TRUE, type |-> Mixed]
           ELSE IF found # << >>
             THEN resolvePropertyChainType(found[1], Tail(chainParts))
           ELSE [thrown |-> FALSE, type |-> Mixed]

\* lines 427-433, 338-346: the cached record of the variable, else the foreach
\* variable at the position
FindVarInfo(cache, bladeUri, position, varName) ==
  LET cached == FindInfo(cache, bladeUri, varName)
      foreachVars == SelectSeq(getForeachVariablesAtPosition(cache, bladeUri, position),
                               LAMBDA v : v.name = varName)
  IN  IF cached # << >> THEN cached
      ELSE IF foreachVars # << >> THEN << Head(foreachVars) >>
      ELSE << >>

NoAnswer(kind, q) ==
  [kind |-> kind, uri |-> q[1], pos |-> q[2], var |-> q[3], chain |-> q[4],
   found |-> FALSE, start |-> NoType, thrown |-> FALSE, type |-> NoType,
   items |-> EmptyMap]

\* lines 414-495: one item per member of the final type
providePropertyCompletionItems(cache, q) ==
  LET varInfo == FindVarInfo(cache, q[1], q[2], q[3])
      start == TypeOrMixed(varInfo[1].type)
      finalType == resolvePropertyChainType(start, q[4])
      finalProperties == inferTypeProperties(finalType.type)
  IN  IF varInfo = << >> THEN NoAnswer("members", q)
      ELSE [NoAnswer("members", q) EXCEPT
              !.found = TRUE, !.start = start,
              !.thrown = finalType.thrown \/ finalProperties.thrown,
              !.type = IF finalType.thrown THEN NoType ELSE finalType.type,
              !.items = IF finalType.thrown \/ finalProperties.thrown THEN EmptyMap
                        ELSE finalProperties.map]

\* lines 627-652: typeName.startsWith is no function when typeName is no string
extractBaseTypeThrows(typeName) == ~IsString(typeName)

\* lines 278-382, with the chain up to the hovered segment
provideMethodChainHover(cache, q) ==
  LET varInfo == FindVarInfo(cache, q[1], q[2], q[3])
      start == TypeOrMixed(varInfo[1].type)
      propertyType == resolvePropertyChainType(start, q[4])
  IN  IF varInfo = << >> THEN NoAnswer("chainHover", q)
      ELSE [NoAnswer("chainHover", q) EXCEPT
              !.found = TRUE, !.start = start,
              !.thrown = propertyType.thrown \/ extractBaseTypeThrows(propertyType.type),
              !.type = IF propertyType.thrown THEN NoType ELSE propertyType.type]

\* the segment names of the queries
ChainNames == { "first", "user", "nope", "constructor", "id" }

Chains == UNION { [1 .. n -> ChainNames] : n \in 0 .. MaxChain }

\* a chain after a variable of the template, asked before and inside a foreach block
ChainQueries ==
  { << PostsIndexUri, pos, varName, chain >> :
      pos \in { 1, 3 }, varName \in { "$posts", "$post", "$tag" }, chain \in Chains }
  \cup { << HomeUri, 1, "$user", chain >> : chain \in Chains }

ProvidePropertyCompletion(q) ==
  /\ "propertyCompletionProvider" \in registered
  /\ ~MicrotaskPending
  /\ completionResult' = providePropertyCompletionItems(allBladeVarInfos, q)
  /\ UNCHANGED << allBladeVarInfos, compactLastIndex, scans, nScans, last, quiet,
                  hoverResult, probe >>
  /\ UNCHANGED bridgeVars
  /\ UNCHANGED activationVars
  /\ UNCHANGED envVars

ProvideChainHover(q) ==
  /\ "hoverProvider" \in registered
  /\ ~MicrotaskPending
  /\ completionResult' = provideMethodChainHover(allBladeVarInfos, q)
  /\ UNCHANGED << allBladeVarInfos, compactLastIndex, scans, nScans, last, quiet,
                  hoverResult, probe >>
  /\ UNCHANGED bridgeVars
  /\ UNCHANGED activationVars
  /\ UNCHANGED envVars

(***************************************************************************)
(* inferVariableType applied on its own to a controller text and a name.   *)
(***************************************************************************)
\* the right-hand sides of the assignments: a shape and the class it names
\*   Status::ACTIVE   Level::LOW   Post::DRAFT   Status::from(1)
\*   Post::query()->where('x', 1)->get()   Post::query()->first()   Post::find(1)
\*   Post::all()   Post::where('x', 1)->get()   Post::where('x', 1)->first()
\*   new Post()   collect([])   now()   []   'text'   5   true   $request
RightHandSides ==
  { << "EnumCase", "Status" >>, << "EnumCase", "Level" >>, << "EnumCase", "Post" >>,
    << "EnumFrom", "Status" >>, << "QueryGet", "Post" >>, << "QueryFirst", "Post" >>,
    << "Find", "Post" >>, << "All", "Post" >>, << "WhereGet", "Post" >>,
    << "WhereFirst", "Post" >>, << "New", "Post" >>, << "Collect", "" >>,
    << "Carbon", "" >>, << "Array", "" >>, << "String", "" >>, << "Number", "" >>,
    << "Bool", "" >>, << "Request", "" >> }

ProbeVars == { "count", "status" }

ProbeStatements == { Assign(v, r[1], r[2]) : v \in ProbeVars, r \in RightHandSides }

ProbeCodes == UNION { [1 .. n -> ProbeStatements] : n \in 1 .. MaxStmts }

InferInputs ==
  { [fn |-> "input", code |-> c, varName |-> v, result |-> NoType] :
      c \in ProbeCodes, v \in ProbeVars }

InitInfer ==
  /\ ProgramInit
  /\ probe \in InferInputs

ApplyInferVariableType ==
  /\ probe.fn = "input"
  /\ probe' = [probe EXCEPT !.fn = "inferVariableType",
                             !.result = inferVariableType(probe.code, probe.varName)]
  /\ UNCHANGED programVars

SpecInfer == InitInfer /\ [][ApplyInferVariableType]_vars

(***************************************************************************)
(* parseModelProperties applied on its own to the text of a class file.    *)
(***************************************************************************)
SeqsUpTo(S, n) == UNION { [1 .. m -> S] : m \in 0 .. n }

\* class files: each section holds up to MaxEntries of these entries
ProbeFiles ==
  [fillable : SeqsUpTo({ "id", "title" }, MaxEntries),
   casts : SeqsUpTo({ << "id", "string" >>, << "published_at", "datetime" >> }, MaxEntries),
   dates : SeqsUpTo({ "created_at" }, MaxEntries),
   phpDoc : SeqsUpTo({ << "string", "id" >>, << "int", "views" >> }, MaxEntries),
   relations : SeqsUpTo({ << "user", "single" >>, << "comments", "collection" >> }, MaxEntries)]

ModelInputs ==
  { [fn |-> "input", modelName |-> "Post", file |-> f, result |-> EmptyMap] :
      f \in ProbeFiles }

InitModel ==
  /\ ProgramInit
  /\ probe \in ModelInputs

ApplyParseModelProperties ==
  /\ probe.fn = "input"
  /\ probe' = [probe EXCEPT !.fn = "parseModelProperties",
                             !.result = ModelPropertiesOf(probe.modelName, probe.file)]
  /\ UNCHANGED programVars

SpecModel == InitModel /\ [][ApplyParseModelProperties]_vars

(***************************************************************************)
(* convertToBladeFilePath applied on its own to a template name, given as  *)
(* its characters, and the call site `view('<name>', ['x' => $x])`.        *)
(***************************************************************************)
NameAlphabet == { "a", "b", "." }

\* the text of a sequence of characters
RECURSIVE CharsText(_)
CharsText(chars) == IF chars = << >> THEN "" ELSE Head(chars) \o CharsText(Tail(chars))

\* a variant of the pattern without its g flag: the first dot only
RECURSIVE ReplaceFirstDot(_)
ReplaceFirstDot(chars) ==
  IF chars = << >> THEN << >>
  ELSE IF Head(chars) = "." THEN << "/" >> \o Tail(chars)
  ELSE << Head(chars) >> \o ReplaceFirstDot(Tail(chars))

\* line 1003: replace(/\./g, '/')
ReplaceDots(chars) ==
  [i \in 1 .. Len(chars) |-> IF chars[i] = "." THEN "/" ELSE chars[i]]

\* lines 1001-1007 on the characters of the name; `given` is false for undefined
convertToBladeFilePathChars(given, chars) ==
  IF ~given \/ chars = << >> THEN [defined |-> FALSE, text |-> ""]
  ELSE LET relativePath == CharsText(ReplaceDots(chars))
           absoluteViewPath == "file://" \o WorkspaceRoot \o "/resources/views"
       IN  [defined |-> TRUE,
            text |-> absoluteViewPath \o "/" \o relativePath \o ".blade.php"]

\* the segments of a dot-notation name
RECURSIVE SplitDots(_, _, _)
SplitDots(chars, current, acc) ==
  IF chars = << >> THEN Append(acc, current)
  ELSE IF Head(chars) = "." THEN SplitDots(Tail(chars), "", Append(acc, current))
  ELSE SplitDots(Tail(chars), current \o Head(chars), acc)

\* the call site of the name: view('<name>', ['x' => $x]), or view() without a name
CallSite(given, chars) ==
  << ViewCall("array", IF given THEN SplitDots(chars, "", << >>) ELSE << >>,
              << VarEntry("x", "x") >>) >>

NameInputs ==
  { [fn |-> "input", given |-> g, chars |-> c,
     result |-> [defined |-> FALSE, text |-> ""], records |-> << >>] :
      g \in BOOLEAN, c \in SeqsUpTo(NameAlphabet, MaxName) }

InitName ==
  /\ ProgramInit
  /\ probe \in { i \in NameInputs : i.given \/ i.chars = << >> }

ApplyConvertToBladeFilePath ==
  /\ probe.fn = "input"
  /\ probe' = [probe EXCEPT
                 !.fn = "convertToBladeFilePath",
                 !.result = convertToBladeFilePathChars(probe.given, probe.chars),
                 !.records = ArraySyntaxRecords(CallSite(probe.given, probe.chars),
                                                "HomeController.php")]
  /\ UNCHANGED programVars

SpecName == InitName /\ [][ApplyConvertToBladeFilePath]_vars

(***************************************************************************)
(* parseViewVariablesFromController applied on its own to a text with one  *)
(* render call, written with `[...]` and with `array(...)`, under each      *)
(* engine.                                                                 *)
(***************************************************************************)
\* 'message' => $greeting   'posts' => $posts   'limit' => 5
ProbeEntries ==
  { VarEntry("message", "greeting"), VarEntry("posts", "posts"), LitEntry("limit", "5") }

ProbeViewNames == { << "sample" >>, << "posts", "index" >> }

\* the text before the call: nothing, or  $posts = Post::where('x', 1)->get();
ProbePreambles == { << >>, << Assign("posts", "WhereGet", "Post") >> }

\* the bridge instance handed to the call: none, or one of each behaviour
ProbeEngines == { "null" } \cup RunBehaviours

ExtractInputs ==
  { [fn |-> "input", pre |-> pre, name |-> n, args |-> a, phpWasm |-> w,
     recs |-> << >>, arrayFnRecs |-> << >>] :
      pre \in ProbePreambles, n \in ProbeViewNames,
      a \in SeqsUpTo(ProbeEntries, MaxArgs), w \in ProbeEngines }

InitExtract ==
  /\ ProgramInit
  /\ probe \in ExtractInputs

\* the controller text: the preamble, then view('name', <syntax> entries)
ProbeText(syntax) == probe.pre \o << ViewCall(syntax, probe.name, probe.args) >>

ApplyParseViewVariables ==
  /\ probe.fn = "input"
  /\ probe' = [probe EXCEPT
                 !.fn = "parseViewVariablesFromController",
                 !.recs = parseViewVariablesFromText(
                            ProbeText("array"), "HomeController.php",
                            probe.phpWasm, TRUE, 0).recs,
                 !.arrayFnRecs = parseViewVariablesFromText(
                                   ProbeText("arrayFn"), "HomeController.php",
                                   probe.phpWasm, TRUE, 0).recs]
  /\ UNCHANGED programVars

SpecExtract == InitExtract /\ [][ApplyParseViewVariables]_vars

(***************************************************************************)
(* getWordRangeAtPosition (lib/document-fns.ts) applied on its own with    *)
(* its default pattern, one step per evaluation of the loop's condition.   *)
(* The line of the cursor is a sequence of characters: `$`, a word         *)
(* character, or any other character.                                      *)
(***************************************************************************)
LineAlphabet == { "$", "a", " " }

IsWordChar(c) == c = "a"

\* /\$[\w]+/ has no `g` flag: exec starts at index 0 whatever lastIndex is, and
\* leaves lastIndex alone
DefaultRegexGlobal == FALSE

NoMatch == [found |-> FALSE, index |-> 0, length |-> 0]

NoRange == [found |-> FALSE, start |-> 0, end |-> 0]

\* the word characters that follow the `$` at the 1-based place i
RECURSIVE WordRun(_, _)
WordRun(lineText, i) ==
  IF i + 1 <= Len(lineText) /\ IsWordChar(lineText[i + 1])
  THEN 1 + WordRun(lineText, i + 1)
  ELSE 0

\* regex.exec(lineText) searching from the 0-based index `from`: the leftmost match
RegexExec(lineText, from) ==
  LET starts == { i \in (from + 1) .. Len(lineText) :
                    lineText[i] = "$" /\ WordRun(lineText, i) > 0 }
  IN  IF starts = {} THEN NoMatch
      ELSE [found |-> TRUE, index |-> Min(starts) - 1,
            length |-> 1 + WordRun(lineText, Min(starts))]

\* position.character, counted from the start of the line (offset - lineStart)
WordInputs ==
  { [fn |-> "getWordRangeAtPosition", pc |-> "call", lineText |-> l, character |-> c,
     lastIndex |-> 0, result |-> NoRange] :
      l \in SeqsUpTo(LineAlphabet, MaxLine), c \in 0 .. MaxLine }

InitWord ==
  /\ ProgramInit
  /\ probe \in { w \in WordInputs : w.character <= Len(w.lineText) }

\* lines 7-11: the text of the cursor's line is cut out
CallGetWordRangeAtPosition ==
  /\ probe.fn = "getWordRangeAtPosition"
  /\ probe.pc = "call"
  /\ probe' = [probe EXCEPT !.pc = "loop"]
  /\ UNCHANGED programVars

\* lines 14-23: one evaluation of the loop's condition and, on a match, of its body
ExecMatch ==
  /\ probe.fn = "getWordRangeAtPosition"
  /\ probe.pc = "loop"
  /\ \E match \in { RegexExec(probe.lineText,
                                IF DefaultRegexGlobal THEN probe.lastIndex ELSE 0) } :
       LET start == match.index
           end == start + match.length
       IN  IF ~match.found
           THEN probe' = [probe EXCEPT !.pc = "returned", !.lastIndex = 0]
           ELSE IF start <= probe.character /\ end >= probe.character
           THEN probe' = [probe EXCEPT
                            !.pc = "returned",
                            !.lastIndex = IF DefaultRegexGlobal THEN end ELSE @,
                            !.result = [found |-> TRUE, start |-> start, end |-> end]]
           ELSE probe' = [probe EXCEPT
                            !.lastIndex = IF DefaultRegexGlobal THEN end ELSE @]
  /\ UNCHANGED programVars

NextWord ==
  \/ CallGetWordRangeAtPosition
  \/ ExecMatch

\* the call runs on one thread: a step that can be taken is taken
SpecWord == InitWord /\ [][NextWord]_vars /\ WF_vars(NextWord)

(***************************************************************************)
(* The syntax-tree engine (the earlier scan-controller, unnamed/part_004)  *)
(* applied on its own to a text of render calls. The tree walk meets the   *)
(* call nodes in the order of the text.                                    *)
(***************************************************************************)
\* part_004 lines 293-297: a call node whose callee is the name `view`
isViewCall(stmt) == stmt.k = "view"

\* part_004 lines 334-351: the entries with a string key and a variable value;
\* the parser is built with withSource, so loc.source is the variable's text
extractVariablesFromArray(stmt) ==
  LET items == SelectSeq(stmt.args, LAMBDA e : e.isVar)
  IN  [i \in 1 .. Len(items) |->
         [name |-> "$" \o items[i].key, source |-> "$" \o items[i].val]]

\* part_004 lines 302-318: nothing for a second argument that is no array
\* literal, and nothing for an empty template name
parseViewCall(stmt) ==
  LET bladeFilePath == convertToBladeFilePath(stmt.name)
      varNameSources == extractVariablesFromArray(stmt)
  IN  IF stmt.syntax = "array" /\ bladeFilePath # ""
      THEN [i \in 1 .. Len(varNameSources) |->
              [name |-> varNameSources[i].name, source |-> varNameSources[i].source,
               jumpTargetUri |-> bladeFilePath]]
      ELSE << >>

\* part_004 lines 34-52: the callback assigns the list at every view call it meets
RECURSIVE AstTraverse(_, _, _)
AstTraverse(code, controllerPath, bladeVarInfo) ==
  IF code = << >> THEN bladeVarInfo
  ELSE IF isViewCall(Head(code))
    THEN LET varNameSourceJumpTos == parseViewCall(Head(code))
         IN  AstTraverse(Tail(code), controllerPath,
                         [i \in 1 .. Len(varNameSourceJumpTos) |->
                            BladeVarInfo(varNameSourceJumpTos[i].name,
                                         varNameSourceJumpTos[i].source,
                                         varNameSourceJumpTos[i].jumpTargetUri,
                                         controllerPath, Mixed)])
  ELSE AstTraverse(Tail(code), controllerPath, bladeVarInfo)

\* part_004 lines 30-56
AstParseViewVariablesFromController(code, controllerPath) ==
  AstTraverse(code, controllerPath, << >>)

\* view('sample', [...]), view('posts.index', [...]) with no entry or one, and
\* view('sample', compact('user'))
AstCalls ==
  { ViewCall("array", n, a) :
      n \in ProbeViewNames, a \in { << >> } \cup { << e >> : e \in ProbeEntries } }
    \cup { ViewCall("compact", << "sample" >>, << "user" >>) }

AstInputs ==
  { [fn |-> "input", code |-> c, recs |-> << >>] : c \in SeqsUpTo(AstCalls, MaxCalls) }

InitAst ==
  /\ ProgramInit
  /\ probe \in AstInputs

ApplyAstParseViewVariables ==
  /\ probe.fn = "input"
  /\ probe' = [probe EXCEPT
                 !.fn = "AstParseViewVariablesFromController",
                 !.recs = AstParseViewVariablesFromController(probe.code,
                                                              "HomeController.php")]
  /\ UNCHANGED programVars

SpecAst == InitAst /\ [][ApplyAstParseViewVariables]_vars

(***************************************************************************)
(* The specification.                                                      *)
(***************************************************************************)
Next ==
  \/ Activate
  \/ \E failAt \in 0 .. Len(Resources) : ActivateContinue(failAt)
  \/ Deactivate
  \/ \E b \in RunBehaviours, testOk \in BOOLEAN : ImportResolve(b, testOk)
  \/ ImportReject
  \/ OuterSettle
  \/ InitTimeout
  \/ \E s \in ScanIds : ListDone(s)
  \/ \E s \in ScanIds : ListFail(s)
  \/ \E s \in ScanIds : ParseDone(s)
  \/ RefreshCommand
  \/ \E c \in FileChanges : FileChange(c[1], c[2])
  \/ WatcherEvent
  \/ \E paths \in { PathsDefault, PathsBoth } : ConfigChange(paths)
  \/ \E value \in BOOLEAN : EnableChange(value)
  \/ \E q \in HoverQueries : ProvideHover(q)
  \/ \E q \in CompletionQueries : ProvideCompletion(q)
  \/ \E q \in ChainQueries : ProvidePropertyCompletion(q)
  \/ \E q \in ChainQueries : ProvideChainHover(q)

Spec == Init /\ [][Next]_vars

(***************************************************************************)
(* Slices of the program: each keeps the handlers one family of properties *)
(* is about and leaves the others out.                                     *)
(***************************************************************************)
\* rescans and the queries that run between their steps
NextRescan ==
  \/ Activate
  \/ ActivateContinue(0)
  \/ \E s \in ScanIds : ListDone(s)
  \/ \E s \in ScanIds : ListFail(s)
  \/ \E s \in ScanIds : ParseDone(s)
  \/ RefreshCommand
  \/ \E c \in FileChanges : FileChange(c[1], c[2])
  \/ WatcherEvent
  \/ \E paths \in { PathsDefault, PathsBoth } : ConfigChange(paths)
  \/ \E q \in HoverQueries : ProvideHover(q)

SpecRescan == Init /\ [][NextRescan]_vars

\* rescans whose listings succeed, under each of their triggers
NextReplace ==
  \/ Activate
  \/ ActivateContinue(0)
  \/ \E s \in ScanIds : ListDone(s)
  \/ \E s \in ScanIds : ParseDone(s)
  \/ RefreshCommand
  \/ \E c \in FileChanges : FileChange(c[1], c[2])
  \/ WatcherEvent
  \/ \E paths \in { PathsDefault, PathsBoth } : ConfigChange(paths)

SpecReplace == Init /\ [][NextReplace]_vars

\* the background bridge initialisation beside the scans
NextBridge ==
  \/ Activate
  \/ ActivateContinue(0)
  \/ \E b \in RunBehaviours, testOk \in BOOLEAN : ImportResolve(b, testOk)
  \/ ImportReject
  \/ OuterSettle
  \/ InitTimeout
  \/ \E s \in ScanIds : ListDone(s)
  \/ \E s \in ScanIds : ListFail(s)
  \/ \E s \in ScanIds : ParseDone(s)
  \/ RefreshCommand

SpecBridge == Init /\ [][NextBridge]_vars

\* activation with a registration step that may raise, queries, deactivation
NextLifecycle ==
  \/ Activate
  \/ \E failAt \in 0 .. Len(Resources) : ActivateContinue(failAt)
  \/ Deactivate
  \/ \E s \in ScanIds : ListDone(s)
  \/ \E s \in ScanIds : ListFail(s)
  \/ \E s \in ScanIds : ParseDone(s)
  \/ RefreshCommand
  \/ \E q \in HoverQueries : ProvideHover(q)

SpecLifecycle == Init /\ [][NextLifecycle]_vars

\* the background bridge initialisation beside scans over one or two patterns
NextEngine ==
  \/ Activate
  \/ ActivateContinue(0)
  \/ \E b \in RunBehaviours, testOk \in BOOLEAN : ImportResolve(b, testOk)
  \/ ImportReject
  \/ OuterSettle
  \/ \E s \in ScanIds : ListDone(s)
  \/ \E s \in ScanIds : ParseDone(s)
  \/ \E paths \in { PathsDefault, PathsBoth } : ConfigChange(paths)

SpecEngine == Init /\ [][NextEngine]_vars

\* activation, its scan with a listing that may fail, and the first queries
NextStartup ==
  \/ Activate
  \/ \E failAt \in 0 .. Len(Resources) : ActivateContinue(failAt)
  \/ \E s \in ScanIds : ListDone(s)
  \/ \E s \in ScanIds : ListFail(s)
  \/ \E s \in ScanIds : ParseDone(s)
  \/ \E q \in HoverQueries : ProvideHover(q)
  \/ \E q \in CompletionQueries : ProvideCompletion(q)

SpecStartup == Init /\ [][NextStartup]_vars

\* the completion queries on the cache the scans leave
NextQuery ==
  \/ Activate
  \/ ActivateContinue(0)
  \/ \E s \in ScanIds : ListDone(s)
  \/ \E s \in ScanIds : ParseDone(s)
  \/ RefreshCommand
  \/ \E q \in CompletionQueries : ProvideCompletion(q)

SpecQuery == Init /\ [][NextQuery]_vars

\* changes of the enable setting, the scans and the queries around them
NextEnable ==
  \/ Activate
  \/ ActivateContinue(0)
  \/ \E s \in ScanIds : ListDone(s)
  \/ \E s \in ScanIds : ParseDone(s)
  \/ \E value \in BOOLEAN : EnableChange(value)
  \/ \E q \in HoverQueries : ProvideHover(q)
  \/ \E q \in CompletionQueries : ProvideCompletion(q)

SpecEnable == Init /\ [][NextEnable]_vars

\* the member-chain queries on the cache the activation scan leaves
NextChain ==
  \/ Activate
  \/ ActivateContinue(0)
  \/ \E s \in ScanIds : ListDone(s)
  \/ \E s \in ScanIds : ParseDone(s)
  \/ \E q \in ChainQueries : ProvidePropertyCompletion(q)
  \/ \E q \in ChainQueries : ProvideChainHover(q)

SpecChain == Init /\ [][NextChain]_vars

(***************************************************************************)
(* Properties.                                                             *)
(***************************************************************************)
NoScanInFlight == \A s \in ScanIds : ~InFlight(s)

\* the call that ended last is the one that was started last, and it met no other call
LatestRanAlone == last.id = nScans /\ last.scan.alone /\ NoScanInFlight

\* C1: a hover query that runs while a rescan is suspended sees the complete
\* pre-scan list or the complete post-scan list, never an emptied or partly
\* filled one.  Stated when the rescan has completed: what the first query in
\* its time saw is the list before it or the list it left.
C1_HoverSeesOldOrNew ==
  (last.outcome = "done" /\ LatestRanAlone /\ last.scan.observed)
    => (last.scan.obs = last.scan.pre \/ last.scan.obs = last.scan.produced)

\* C2: when rescans overlap and all of them have completed, the cache is exactly
\* the list computed by the one that finished last: nothing of another scan,
\* nothing twice.
C2_LastFinisherWins ==
  (/\ NoScanInFlight
   /\ \A s \in ScanIds : scans[s].pc # "failed"
   /\ last.outcome = "done"
   /\ ~last.scan.alone)
    => allBladeVarInfos = last.scan.produced

\* C3: after a rescan that failed, the cache still holds the complete list it
\* held before that rescan started.
C3_FailedScanKeepsCache ==
  (last.outcome = "failed" /\ LatestRanAlone) => allBladeVarInfos = last.scan.pre

\* C4: after a rescan that ran alone to completion, whatever triggered it, the
\* cache holds exactly the records that scan derived from the files it found;
\* nothing of the previous contents survives beside them.
C4_ScanReplacesCache ==
  (last.outcome = "done" /\ LatestRanAlone) => allBladeVarInfos = last.scan.produced

\* a solitary rescan has completed over a cache that held a record the rescan
\* did not derive again, and that record is gone
C4_Witness ==
  /\ last.outcome = "done"
  /\ LatestRanAlone
  /\ last.id > 1
  /\ allBladeVarInfos # << >>
  /\ \E i \in 1 .. Len(last.scan.pre) : ~Contains(allBladeVarInfos, last.scan.pre[i])

\* the (name, jumpTargetUri, type) triples of a record list
Triples(infos) ==
  { << infos[i].name, infos[i].jumpTargetUri, infos[i].type >> : i \in 1 .. Len(infos) }

\* C5: two full scans in succession, the second started after the first has
\* completed, over unchanged files, settings and bridge state, leave caches that
\* are equal as sets of (name, jumpTargetUri, type) triples.
C5_RepeatedScanSameTriples ==
  (/\ last.outcome = "done"
   /\ LatestRanAlone
   /\ last.scan.repeat
   /\ last.scan.steady)
    => Triples(allBladeVarInfos) = Triples(last.scan.pre)

\* C6: every record in the cache has a non-empty jumpTargetUri, whichever
\* engine or materialization step produced it.
C6_JumpTargetNonEmpty ==
  \A i \in 1 .. Len(allBladeVarInfos) : allBladeVarInfos[i].jumpTargetUri # ""

\* a scan with the bridge ready has read the file whose first render call names
\* no template, and the cache holds a record only the bridge-assisted engine
\* derives (a literal entry) beside a materialized foreach item
C6_Witness ==
  /\ last.outcome = "done"
  /\ NoScanInFlight
  /\ phpWasmReady
  /\ phpWasm = "ast"
  /\ fs["TagController.php"] = 2
  /\ \E i \in 1 .. Len(allBladeVarInfos) : allBladeVarInfos[i].name = "$limit"
  /\ \E i \in 1 .. Len(allBladeVarInfos) :
        allBladeVarInfos[i].source = "$posts (foreach item)"

\* the ways a ready bridge's run call fails: it raises, or returns no text
FailingRuns == { "throws", "notext" }

\* C7: for every controller file, parseViewVariablesFromController returns the
\* regex-heuristic engine's result alike when the bridge argument is omitted,
\* when the bridge is passed but not ready, and when it is ready but its run
\* call fails.  Stated for every file of the workspace as it is, at the
\* pattern position the process is in.
C7_BridgeFallbackSame ==
  \A f \in Files :
     fs[f] # Absent =>
       LET regex == RegexEngine(Texts[fs[f]], f, compactLastIndex)
       IN  /\ parseViewVariablesFromController(fs[f], f, "undefined", FALSE,
                                              compactLastIndex) = regex
           /\ \A b \in RunBehaviours :
                 parseViewVariablesFromController(fs[f], f, b, FALSE,
                                                  compactLastIndex) = regex
           /\ \A b \in FailingRuns :
                 parseViewVariablesFromController(fs[f], f, b, TRUE,
                                                  compactLastIndex) = regex

\* a scan has just extracted a file while the bridge was ready and its run call
\* raised, and holds the records of the regex-heuristic engine
C7_Witness ==
  /\ phpWasmReady
  /\ phpWasm \in FailingRuns
  /\ \E s \in ScanIds :
        /\ scans[s].pc = "parsing"
        /\ scans[s].files[scans[s].f] = "HomeController.php"
        /\ Len(scans[s].pending) > 0
        /\ \A i \in 1 .. Len(scans[s].pending) : scans[s].pending[i].name # "$limit"

\* C8: once the bridge initialisation has timed out or raised, the bridge is
\* marked not ready (phpWasmReady false, phpWasm null) and stays so, whatever
\* the pending module load does later.
C8_FailedBridgeStaysNotReady ==
  initOuter = "failed" => (phpWasm = "null" /\ ~phpWasmReady)

\* C9: every resource registered during activation is released on
\* deactivation, also when a registration step raised after others succeeded.
C9_AllReleasedOnDeactivate ==
  deactivated => registered = {}

\* C10: an error raised by a step of activation is caught, logged and shown as
\* exactly one error notification; activate returns, and every provider
\* registered before the failing step stays registered.
C10_ActivationErrorContained ==
  failedStep # 0 =>
    /\ actPc = "returned"
    /\ errorLogs = 1
    /\ errorMessages = 1
    /\ RegisteredBefore(failedStep) \subseteq registered

\* the refresh command's registration raised, and the hover provider
\* registered before it has answered a query since
C10_Witness ==
  /\ failedStep = 4
  /\ actPc = "returned"
  /\ "hoverProvider" \in registered
  /\ hoverResult.asked
  /\ hoverResult.found

\* the end of the block a directive opens, counting the directives nested in it
RECURSIVE BlockEnd(_, _, _)
BlockEnd(text, j, depth) ==
  IF j > Len(text) THEN Len(text)
  ELSE IF text[j].t = "foreach" THEN BlockEnd(text, j + 1, depth + 1)
  ELSE IF text[j].t = "end"
    THEN IF depth = 0 THEN j ELSE BlockEnd(text, j + 1, depth - 1)
  ELSE BlockEnd(text, j + 1, depth)

\* the position lies in a block `@foreach($coll as $item)` of the template
InsideForeachOf(uri, pos, collSource, itemName) ==
  \E i \in 1 .. Len(BladeText(uri)) :
     /\ BladeText(uri)[i].t = "foreach"
     /\ "$" \o BladeText(uri)[i].coll \o " (foreach item)" = collSource
     /\ "$" \o BladeText(uri)[i].item = itemName
     /\ i <= pos
     /\ pos <= BlockEnd(BladeText(uri), i + 1, 0)

\* the sources of the records that stand for a loop's item variable
ForeachItemSources ==
  { "$" \o BladeText(PostsIndexUri)[i].coll \o " (foreach item)" :
      i \in { j \in 1 .. Len(BladeText(PostsIndexUri)) :
                 BladeText(PostsIndexUri)[j].t = "foreach" } }

\* C11: the item variable of a `@foreach($posts as $post)` block is offered as a
\* variable completion only at positions inside that block: every offered item
\* that stands for a loop's item variable belongs to a block around the cursor.
C11_ForeachItemOnlyInsideBlock ==
  completionResult.kind = "variables" =>
    \A i \in 1 .. Len(completionResult.items) :
       completionResult.items[i].source \in ForeachItemSources =>
         InsideForeachOf(completionResult.uri, completionResult.pos,
                         completionResult.items[i].source, completionResult.items[i].name)

\* the type a chain leads to when only the entries of the member maps count
RECURSIVE OwnChainType(_, _)
OwnChainType(type, chain) ==
  IF chain = << >> THEN type
  ELSE IF Head(chain) \in DOMAIN inferTypeProperties(type).map
    THEN OwnChainType(inferTypeProperties(type).map[Head(chain)], Tail(chain))
  ELSE Mixed

\* C12: member-chain resolution never raises an error, in chain hover and in member
\* completion: the resolved type is the one looked up segment by segment in the
\* member maps, and `mixed` from the first segment that is no entry of the
\* current type's map (segments such as `toString` or `constructor` included).
C12_ChainResolutionNeverRaises ==
  (completionResult.kind \in { "members", "chainHover" } /\ completionResult.found) =>
    /\ ~completionResult.thrown
    /\ completionResult.type = OwnChainType(completionResult.start, completionResult.chain)

\* the documented rules in their order, each matched against the assignments to
\* $varName alone
RuleOrderType(code, varName) ==
  LET To(S) == AssignsTo(code, varName, S)
      Cls(S) == code[Min(To(S))].cls
      enumCase == To({ "EnumCase" }) # {}
                    /\ Cls({ "EnumCase" }) \in EnumClasses \cup TraditionalEnumClasses
      enumFrom == To({ "EnumFrom" }) # {} /\ Cls({ "EnumFrom" }) \in EnumClasses
      query == { i \in To({ "QueryGet", "QueryFirst" }) : GetFollows(code, i) }
      coll == { i \in To({ "All", "WhereGet", "WhereFirst" }) : GetFollows(code, i) }
  IN  IF enumCase THEN PlainType(Cls({ "EnumCase" }))
      ELSE IF enumFrom THEN PlainType(Cls({ "EnumFrom" }))
      ELSE IF query # {} THEN CollectionOf(code[Min(query)].cls)
      ELSE IF To({ "Find" }) # {} THEN PlainType(Cls({ "Find" }))
      ELSE IF coll # {} THEN CollectionOf(code[Min(coll)].cls)
      ELSE IF To({ "New" }) # {} THEN PlainType(Cls({ "New" }))
      ELSE IF To({ "Collect" }) # {} THEN PlainType("Collection")
      ELSE IF To({ "Carbon" }) # {} THEN PlainType("Carbon")
      ELSE IF To({ "Array" }) # {} THEN PlainType("array")
      ELSE IF To({ "String" }) # {} THEN PlainType("string")
      ELSE IF To({ "Number" }) # {} THEN PlainType("int")
      ELSE IF To({ "Bool" }) # {} THEN PlainType("bool")
      ELSE IF To({ "Request" }) # {} THEN PlainType("Request")
      ELSE Mixed

\* C13: inferVariableType returns the type of the first rule, in the documented
\* order (enum, query()...->get(), single find/first/create/make, collection
\* get/all/where...->get(), new, collect(, Carbon, array, string, digits,
\* true/false, $request), that matches an assignment to the variable, and
\* `mixed` when no rule matches one.
C13_FirstMatchingRule ==
  probe.fn = "inferVariableType" =>
    probe.result = RuleOrderType(probe.code, probe.varName)

\* the statements of the text that assign $varName
OnlyAssignmentsTo(code, varName) == SelectSeq(code, LAMBDA stmt : stmt.var = varName)

\* C14: the type inferred for $name depends only on the assignments to $name: two
\* texts with the same assignments to $name give the same type, so every text
\* gives the type of its assignments to $name taken alone.
C14_DependsOnOwnAssignments ==
  probe.fn = "inferVariableType" =>
    probe.result = inferVariableType(OnlyAssignmentsTo(probe.code, probe.varName),
                                     probe.varName)

\* C15: in a Model's member map the baseline of persistence-layer members is
\* merged in last without overriding: every member name found in the class file
\* keeps the type found in the file.
C15_BaselineKeepsFileMembers ==
  probe.fn = "parseModelProperties" =>
    \A n \in DOMAIN FileProperties(probe.file) :
       probe.result[n] = FileProperties(probe.file)[n]

\* a class-like type whose class file is at none of the Enum and Model paths
Unlocatable(type) ==
  /\ UpperLeading(type)
  /\ type.of = ""
  /\ type.base \notin ModelClasses \cup EnumClasses \cup TraditionalEnumClasses
  /\ type.base \notin { "Collection", "Carbon", "Request" }

\* C16: for an uppercase-leading class-like type whose class file cannot be located
\* the member map is empty, so member completion after a variable of such a type
\* offers no items.
C16_UnlocatableClassNoMembers ==
  (/\ completionResult.kind = "members"
   /\ completionResult.found
   /\ ~completionResult.thrown
   /\ Unlocatable(completionResult.type))
    => completionResult.items = EmptyMap

\* C17: for a non-empty dot-notation name of N segments convertToBladeFilePath
\* returns file://{workspaceRoot}/resources/views/ followed by exactly the N
\* segments joined by `/` and the suffix .blade.php (which is also the
\* destination of the call site's record); for a missing or empty name it
\* returns no destination and the call site yields no record.
C17_PathFromSegments ==
  probe.fn = "convertToBladeFilePath" =>
    IF probe.given /\ probe.chars # << >>
    THEN /\ probe.result.defined
         /\ probe.result.text =
              "file://" \o WorkspaceRoot \o "/resources/views/"
                \o Join(SplitDots(probe.chars, "", << >>), "/") \o ".blade.php"
         /\ \A i \in 1 .. Len(probe.records) :
               probe.records[i].jumpTargetUri = probe.result.text
    ELSE /\ ~probe.result.defined
         /\ probe.records = << >>

\* the name a.b.a of three segments was converted to .../resources/views/a/b/a.blade.php
C17_Witness ==
  /\ probe.fn = "convertToBladeFilePath"
  /\ probe.given
  /\ probe.chars = << "a", ".", "b", ".", "a" >>
  /\ probe.result.text = "file:///ws/resources/views/a/b/a.blade.php"
  /\ Len(probe.records) = 1

\* C18: a render call written view('name', array('key' => $value, ...)) produces
\* the same variable records as the same call written with [...], in every
\* extraction engine.
C18_ArrayFunctionSameRecords ==
  probe.fn = "parseViewVariablesFromController" => probe.arrayFnRecs = probe.recs

\* the record the specification describes for one entry of the variables map
EntryRecord(e) ==
  [name |-> "$" \o e.key,
   source |-> IF e.isVar THEN "$" \o e.val ELSE e.val,
   definedInPath |-> "HomeController.php",
   jumpTargetUri |-> IF probe.name = << "sample" >>
                     THEN "file:///ws/resources/views/sample.blade.php"
                     ELSE "file:///ws/resources/views/posts/index.blade.php"]

EntryRecords(es) == [i \in 1 .. Len(es) |-> EntryRecord(es[i])]

Described(recs) ==
  [i \in 1 .. Len(recs) |->
     [name |-> recs[i].name, source |-> recs[i].source,
      definedInPath |-> recs[i].definedInPath, jumpTargetUri |-> recs[i].jumpTargetUri]]

IdentifierEntries == SelectSeq(probe.args, LAMBDA e : e.isVar)

\* a record materialized for the item variable of a @foreach over a collection
IsForeachItem(r) ==
  \E i \in 1 .. Len(probe.args) :
    r.source = "$" \o probe.args[i].key \o " (foreach item)"

\* the enhanced extraction mode is in effect: a bridge instance that answers
EnhancedMode == probe.phpWasm \in { "ast", "tokens" }

C20_DisabledNoScanNoAnswers ==
  [][(~enable /\ ~enable')
       => /\ Len(allBladeVarInfos') <= Len(allBladeVarInfos)
          /\ hoverResult' # hoverResult => ~hoverResult'.found
          /\ completionResult' # completionResult => completionResult'.items = << >>]_vars

\* the records of a file when it is extracted on its own, the shared patterns at
\* their start; a file that cannot be read or parsed has none
OwnRecords(file) ==
  parseViewVariablesFromController(fs[file], file, phpWasm, phpWasmReady, 0).recs

\* the records of every discovered file, in iteration order, under every pattern
RecordsOfAllFiles(paths) ==
  ConcatAll([p \in 1 .. Len(paths) |->
               LET files == listControllerFiles(paths[p])
               IN  ConcatAll([f \in 1 .. Len(files) |-> OwnRecords(files[f])])])

\* C21: a Controller file that cannot be read or parsed contributes zero records
\* and does not stop the scan: every other discovered file, before and after it,
\* still contributes its records (stated for a scan that ran alone to its end
\* over an unchanged workspace).
C21_FailingFileCostsOnlyItself ==
  (last.outcome = "done" /\ last.scan.alone /\ last.scan.steady /\ quiet)
    => last.scan.produced = RecordsOfAllFiles(controllerPaths)

\* the spans of the matches of the pattern on a line
LineMatches(lineText) ==
  { [found |-> TRUE, start |-> i - 1, end |-> i + WordRun(lineText, i)] :
      i \in { j \in 1 .. Len(lineText) :
                lineText[j] = "$" /\ WordRun(lineText, j) > 0 } }

ContainsCursor(m, character) == m.start <= character /\ m.end >= character

\* C22: for every line, every cursor position and the default pattern,
\* getWordRangeAtPosition terminates; it returns the span of a match that
\* contains the cursor, or nothing when no match on the line contains it.
C22_TerminatesWithContainingMatch ==
  (probe.fn = "getWordRangeAtPosition")
    ~> /\ probe.pc = "returned"
       /\ IF probe.result.found
          THEN /\ probe.result \in LineMatches(probe.lineText)
               /\ ContainsCursor(probe.result, probe.character)
          ELSE \A m \in LineMatches(probe.lineText) :
                 ~ContainsCursor(m, probe.character)

\* the kind the README states for an assignment shape of its list
\* 'Supported Type Detection'
StatedKind(stmt) ==
  CASE stmt.shape \in { "Find", "WhereFirst" } -> PlainType(stmt.cls)
    [] stmt.shape = "All" -> CollectionOf(stmt.cls)
    [] stmt.shape = "Collect" -> PlainType("Collection")
    [] stmt.shape = "Carbon" -> PlainType("Carbon")
    [] stmt.shape = "Request" -> PlainType("Request")
    [] stmt.shape = "Array" -> PlainType("array")
    [] stmt.shape = "String" -> PlainType("string")
    [] stmt.shape = "Number" -> PlainType("int")
    [] stmt.shape = "Bool" -> PlainType("bool")

ListedShapes ==
  { "Find", "WhereFirst", "All", "Collect", "Carbon", "Request", "Array", "String",
    "Number", "Bool" }

\* C23: each assignment shape of the README's list is inferred as the stated
\* kind: for a text that is one such assignment to the variable, the inferred
\* type is the stated one.
C23_ListedShapesInferred ==
  (/\ probe.fn = "inferVariableType"
   /\ Len(probe.code) = 1
   /\ probe.code[1].var = probe.varName
   /\ probe.code[1].shape \in ListedShapes)
    => probe.result = StatedKind(probe.code[1])

\* the directive at place i of the template opens a block around the position,
\* the block ending at the directive's own @endforeach / @endforelse
Encloses(uri, i, pos) ==
  /\ BladeText(uri)[i].t = "foreach"
  /\ i <= pos
  /\ pos <= BlockEnd(BladeText(uri), i + 1, 0)

\* the directives of the answered query whose collection the cache held with a
\* type Collection<T> for this template (the cached records open the answer)
TypedDirectives ==
  { i \in 1 .. Len(BladeText(completionResult.uri)) :
      /\ BladeText(completionResult.uri)[i].t = "foreach"
      /\ \E k \in 1 .. Len(completionResult.items) :
           /\ completionResult.items[k].name
                = "$" \o BladeText(completionResult.uri)[i].coll
           /\ completionResult.items[k].type.base = "Collection"
           /\ completionResult.items[k].type.of # "" }

IsItemOf(r, uri, i) ==
  /\ r.name = "$" \o BladeText(uri)[i].item
  /\ r.source = "$" \o BladeText(uri)[i].coll \o " (foreach item)"

\* C24: the foreach-scoped records for a cursor position include the item
\* variable of every block that encloses the position, each directive paired
\* with its own end directive (also inside an outer block after an inner block
\* has ended), and exclude the item variable of every block that does not.
C24_ScopedToEnclosingBlocks ==
  completionResult.kind = "variables"
    => LET uri == completionResult.uri
           pos == completionResult.pos
           recs == completionResult.foreachVars
       IN  /\ \A i \in TypedDirectives :
                Encloses(uri, i, pos)
                  => \E k \in 1 .. Len(recs) : IsItemOf(recs[k], uri, i)
           /\ \A k \in 1 .. Len(recs) :
                \E i \in TypedDirectives :
                   Encloses(uri, i, pos) /\ IsItemOf(recs[k], uri, i)

\* the record of a qualifying entry (string key, variable value) of a render call
QualifyingRecords(stmt) ==
  LET es == SelectSeq(stmt.args, LAMBDA e : e.isVar)
  IN  IF stmt.syntax = "array"
      THEN [i \in 1 .. Len(es) |->
              BladeVarInfo("$" \o es[i].key, "$" \o es[i].val,
                           "file:///ws/resources/views/" \o Join(stmt.name, "/")
                             \o ".blade.php",
                           "HomeController.php", Mixed)]
      ELSE << >>

\* C25: the syntax-tree engine emits a record for every qualifying array entry
\* of every call node named `view`: for a file of k render calls the returned
\* list holds the records of all k calls, each with type `mixed`.
C25_RecordsOfEveryCall ==
  probe.fn = "AstParseViewVariablesFromController"
    => probe.recs = ConcatAll([i \in 1 .. Len(probe.code) |->
                                 QualifyingRecords(probe.code[i])])

C27_OneEngineChoicePerScan ==
  /\ \A s \in ScanIds : Cardinality(scans[s].engines) <= 1
  /\ Cardinality(last.scan.engines) <= 1

\* the activation-time call of refreshVariableInformation has returned
InitialScanOver == scans[1].pc \in { "done", "failed" }

\* C28: no hover or completion query is answered before the initial scan has
\* completed: the providers are registered only after the activation-time call
\* of refreshVariableInformation has finished, with or without an inner failure.
C28_NoAnswerBeforeInitialScan ==
  /\ registered \cap { "hoverProvider", "completionProvider",
                        "propertyCompletionProvider" } # {} => InitialScanOver
  /\ (hoverResult.asked \/ completionResult.kind # "none") => InitialScanOver

\* a completion was answered from the records of the initial scan, and a hover too
C28_Witness ==
  /\ completionResult.kind = "variables"
  /\ completionResult.items # << >>
  /\ hoverResult.asked
  /\ scans[1].pc = "done"

\* the catch block of initializePhpWasmSafely has just run
FailurePathTaken == initOuter # "failed" /\ initOuter' = "failed"

\* C30: in every state in which a scan can read the bridge flags, phpWasmReady
\* implies that phpWasm is an interpreter instance, not null; and the failure
\* path of the initialization resets both flags in one step.
C30_ReadyImpliesInstance ==
  /\ (phpWasmReady => Truthy(phpWasm))
  /\ [][ /\ phpWasmReady' => Truthy(phpWasm')
         /\ FailurePathTaken => (phpWasm' = "null" /\ ~phpWasmReady') ]_vars

\* the instance was made and marked ready, its test run raised, the failure path
\* reset the flags, and a scan is about to read them for a file
C30_Witness ==
  /\ initPromise = "rejected"
  /\ initOuter = "failed"
  /\ phpWasm = "null"
  /\ ~phpWasmReady
  /\ \E s \in ScanIds : scans[s].pc = "parsing"

\* C29: the records extracted from a Controller file are a function of the
\* file's text and the workspace files only: whatever calls came before, one
\* that ended in a caught error inside a match loop included, the result for a
\* file equals the result of extracting it first in a fresh process, where the
\* module-level pattern starts at position 0.
C29_ExtractionCarriesNoState ==
  \A f \in Files :
     fs[f] # Absent =>
       parseViewVariablesFromController(fs[f], f, phpWasm, phpWasmReady,
                                        compactLastIndex).recs
         = parseViewVariablesFromController(fs[f], f, phpWasm, phpWasmReady, 0).recs

====
